---- MODULE Spec2Model ----
(***************************************************************************)
(* A model of the C2HQ ML service (src/ml-service): the per-comment        *)
(* analysis pipeline of main.py, its batch endpoint and background task,   *)
(* and the scorers it calls (toxicity_detector.py, theme_extractor.py,     *)
(* perspective_api.py, sentiment_analyzer.py, supabase_client.py).         *)
(*                                                                         *)
(* Numbers.  The code computes with floats; the model computes with exact  *)
(* integers in fixed units:                                                *)
(*   - a local toxicity score and a Perspective attribute value are in     *)
(*     hundredths (0.9 is 90);                                              *)
(*   - the Perspective blend multiplies hundredths by weights in           *)
(*     hundredths, so it is in 1/10000 (1.0 is 10000);                     *)
(*   - the fused toxicity score is in 1/100000 (1.0 is 100000, see         *)
(*     CombineToxicity).                                                   *)
(* Texts are TLA+ strings; Len, SubSeq and \o act on them character by     *)
(* character.                                                              *)
(***************************************************************************)
EXTENDS Integers, Sequences, FiniteSets, TLC

(***************************************************************************)
(* Characters and strings (Python str and re primitives the scorers use).  *)
(***************************************************************************)

LowerLetters == "abcdefghijklmnopqrstuvwxyz"

UpperLetters == "ABCDEFGHIJKLMNOPQRSTUVWXYZ"

Digits == "0123456789"

\* The i-th character of s, as a string of length 1.
CharAt(s, i) == SubSeq(s, i, i)

\* Whether the one-character string c occurs in the string chars.
CharIn(c, chars) == \E k \in 1..Len(chars) : CharAt(chars, k) = c

\* Python's c.lower() for one character.
LowerChar(c) ==
    IF CharIn(c, UpperLetters)
    THEN CharAt(LowerLetters, CHOOSE k \in 1..Len(UpperLetters) : CharAt(UpperLetters, k) = c)
    ELSE c

RECURSIVE LowerFrom(_, _)
LowerFrom(s, i) ==
    IF i > Len(s) THEN "" ELSE LowerChar(CharAt(s, i)) \o LowerFrom(s, i + 1)

\* Python's text.lower().
Lower(s) == LowerFrom(s, 1)

\* Python's text.isupper(): at least one cased character and no lower-case one.
IsUpper(s) ==
    /\ \E i \in 1..Len(s) : CharIn(CharAt(s, i), UpperLetters)
    /\ \A i \in 1..Len(s) : ~CharIn(CharAt(s, i), LowerLetters)

\* Whether sub occurs in s starting at position i.
OccursAt(s, sub, i) ==
    /\ i >= 1
    /\ i + Len(sub) - 1 <= Len(s)
    /\ SubSeq(s, i, i + Len(sub) - 1) = sub

\* Python's `sub in s`.
Contains(s, sub) == \E i \in 1..(Len(s) - Len(sub) + 1) : OccursAt(s, sub, i)

RECURSIVE CountFrom(_, _, _)
CountFrom(s, sub, i) ==
    IF i + Len(sub) - 1 > Len(s) THEN 0
    ELSE IF OccursAt(s, sub, i) THEN 1 + CountFrom(s, sub, i + Len(sub))
    ELSE CountFrom(s, sub, i + 1)

\* Python's s.count(sub): the number of non-overlapping occurrences, left to right.
Count(s, sub) == CountFrom(s, sub, 1)

\* re's \w for one character.
IsWordChar(c) ==
    \/ CharIn(c, LowerLetters)
    \/ CharIn(c, UpperLetters)
    \/ CharIn(c, Digits)
    \/ c = "_"

\* Whether position i of s (1..Len(s)) holds a word character; FALSE off the ends.
WordAt(s, i) == i >= 1 /\ i <= Len(s) /\ IsWordChar(CharAt(s, i))

\* re's \b just before position i (i in 1..Len(s)+1).
Boundary(s, i) == WordAt(s, i - 1) # WordAt(s, i)

\* re.search(r'\b(w)\b', s) for a literal alternative w.
MatchesWord(s, w) ==
    \E i \in 1..(Len(s) - Len(w) + 1) :
        /\ OccursAt(s, w, i)
        /\ Boundary(s, i)
        /\ Boundary(s, i + Len(w))

\* re.search(r'\b(w1|w2|...)\b', s) for a sequence of literal alternatives.
MatchesAnyWord(s, ws) == \E k \in 1..Len(ws) : MatchesWord(s, ws[k])

\* re's \s for one character (the texts of the model hold no other whitespace
\* than spaces and newlines).
IsSpace(c) == c = " " \/ c = "\n"

\* re.search(r'\b(a\s+b)\b', s): a, one or more whitespace characters, b.
MatchesSpaced(s, a, b) ==
    \E i \in 1..Len(s) : \E j \in (i + Len(a) + 1)..Len(s) :
        /\ OccursAt(s, a, i)
        /\ Boundary(s, i)
        /\ \A k \in (i + Len(a))..(j - 1) : IsSpace(CharAt(s, k))
        /\ OccursAt(s, b, j)
        /\ Boundary(s, j + Len(b))

\* re.search(r'(.)\1{4,}', s): some character five times in a row.  The dot
\* matches every character but a newline (the search has no re.DOTALL).
HasRepeatedChar(s) ==
    \E i \in 1..(Len(s) - 4) :
        /\ CharAt(s, i) # "\n"
        /\ \A k \in 1..4 : CharAt(s, i + k) = CharAt(s, i)

Min(a, b) == IF a <= b THEN a ELSE b

Max(a, b) == IF a >= b THEN a ELSE b

(***************************************************************************)
(* ToxicityDetector (services/toxicity_detector.py).                       *)
(***************************************************************************)

\* self.toxic_patterns: each regex is \b(alt|alt|...)\b; an alternative is a
\* literal word ("words", a character class such as f[*u]ck written out as its
\* two words) or two literals joined by \s+ ("spaced").
toxic_patterns ==
    << [words |-> <<"hate", "stupid", "idiot", "dumb", "moron">>, spaced |-> << >>],
       [words |-> <<"kys">>, spaced |-> << <<"kill", "yourself">> >>],
       [words |-> <<"f*ck", "fuck", "sh*t", "shit", "damn">>, spaced |-> << >>],
       [words |-> <<"racist", "sexist", "homophobic">>, spaced |-> << >>],
       [words |-> <<"die", "death", "suicide">>, spaced |-> << >>] >>

\* self.severity_weights, in hundredths.
severity_weights == [mild |-> 30, moderate |-> 60, severe |-> 90]

\* self.pattern_severity (the code's indexes 0..4 are 1..5 here).
pattern_severity == <<"moderate", "severe", "mild", "severe", "severe">>

\* ToxicityDetector(): the attributes __init__ assigns.  analyze reads them
\* through self.
ToxicityDetectorNew ==
    [toxic_patterns |-> toxic_patterns,
     severity_weights |-> severity_weights,
     pattern_severity |-> pattern_severity]

\* re.search(pattern, text_lower, re.IGNORECASE) for self.toxic_patterns[i].
PatternMatches(self, i, text_lower) ==
    \/ MatchesAnyWord(text_lower, self.toxic_patterns[i].words)
    \/ \E k \in 1..Len(self.toxic_patterns[i].spaced) :
          MatchesSpaced(text_lower, self.toxic_patterns[i].spaced[k][1],
                        self.toxic_patterns[i].spaced[k][2])

RECURSIVE PatternLoop_FirstMatch(_, _, _, _)
\* PatternLoop as it would be if the loop stopped at the first pattern that
\* matches.
PatternLoop_FirstMatch(self, text_lower, i, toxicity_score) ==
    IF i > Len(self.toxic_patterns) THEN toxicity_score
    ELSE IF PatternMatches(self, i, text_lower)
    THEN self.severity_weights[self.pattern_severity[i]]
    ELSE PatternLoop_FirstMatch(self, text_lower, i + 1, toxicity_score)

RECURSIVE PatternLoop(_, _, _, _)
\* The loop over the patterns: toxicity_score = max(toxicity_score, weight)
\* for every pattern that matches.
PatternLoop(self, text_lower, i, toxicity_score) ==
    IF i > Len(self.toxic_patterns) THEN toxicity_score
    ELSE PatternLoop(self, text_lower, i + 1,
             IF PatternMatches(self, i, text_lower)
             THEN Max(toxicity_score, self.severity_weights[self.pattern_severity[i]])
             ELSE toxicity_score)

\* The bump for shouting, in hundredths.
ShoutBump == 10

\* The text must be longer than this for the shouting bump.
ShoutMinLen == 10

\* The bump for many exclamation marks, in hundredths.
ExclaimBump == 5

\* More exclamation marks than this earn the bump.
ExclaimMin == 3

\* The bump for a repeated character, in hundredths.
RepeatBump == 5

\* The cap of the local score, in hundredths (1.0).
ToxicityCap == 100

\* The "additional heuristics" of analyze, added to the pattern score.
HeuristicBumps(text) ==
    (IF Len(text) > ShoutMinLen /\ IsUpper(text) THEN ShoutBump ELSE 0)
    + (IF Count(text, "!") > ExclaimMin THEN ExclaimBump ELSE 0)
    + (IF HasRepeatedChar(text) THEN RepeatBump ELSE 0)

\* ToxicityDetector.analyze(text), in hundredths.  raises: the computation in
\* the try block raises, and the except branch returns 0.0.
ToxicityAnalyze(self, text, raises) ==
    IF raises THEN 0
    ELSE Min(PatternLoop(self, Lower(text), 1, 0) + HeuristicBumps(text), ToxicityCap)

\* analyze as it would be if it kept what it learnt: after a call every mild
\* pattern weighs as a moderate one.
SelfAfterAnalyze_Learns(self, text) ==
    [self EXCEPT !.severity_weights.mild = self.severity_weights.moderate]

\* The detector after analyze(text): the method assigns no attribute of self
\* (matches is a local list).
SelfAfterAnalyze(self, text) == self

\* The detector of the service (main.py: toxicity_detector = ToxicityDetector()).
toxicity_detector == ToxicityDetectorNew

(***************************************************************************)
(* ThemeExtractor (services/theme_extractor.py).                           *)
(***************************************************************************)

\* self.theme_keywords, in declaration order (a dict keeps insertion order).
theme_keywords ==
    << [theme |-> "appreciation",
        keywords |-> <<"love", "amazing", "awesome", "great", "fantastic",
                       "wonderful", "excellent", "brilliant">>],
       [theme |-> "criticism",
        keywords |-> <<"bad", "terrible", "awful", "horrible", "worst",
                       "disappointing", "boring">>],
       [theme |-> "questions",
        keywords |-> <<"why", "how", "what", "when", "where", "who", "?">>],
       [theme |-> "suggestions",
        keywords |-> <<"should", "could", "would", "try", "maybe", "suggest",
                       "idea", "think">>],
       [theme |-> "personal_story",
        keywords |-> <<"i", "me", "my", "myself", "personal", "experience",
                       "story">>],
       [theme |-> "technical",
        keywords |-> <<"code", "programming", "software", "bug", "feature",
                       "technical", "algorithm">>],
       [theme |-> "entertainment",
        keywords |-> <<"funny", "hilarious", "laugh", "lol", "haha", "comedy",
                       "entertainment">>],
       [theme |-> "educational",
        keywords |-> <<"learn", "tutorial", "explain", "understand",
                       "knowledge", "education">>],
       [theme |-> "emotional",
        keywords |-> <<"feel", "emotion", "sad", "happy", "angry", "excited",
                       "worried">>],
       [theme |-> "community",
        keywords |-> <<"everyone", "community", "together", "group", "people",
                       "fans">>],
       [theme |-> "requests",
        keywords |-> <<"please", "can you", "request", "want", "need", "hope">>],
       [theme |-> "spam",
        keywords |-> <<"subscribe", "like", "follow", "check out", "click",
                       "link", "promo">>] >>

RECURSIVE KeywordLoop(_, _, _, _)
\* The inner loop of extract_themes: score += text_lower.count(keyword) for
\* every keyword that occurs in text_lower.
KeywordLoop(text_lower, keywords, k, score) ==
    IF k > Len(keywords) THEN score
    ELSE KeywordLoop(text_lower, keywords, k + 1,
             IF Contains(text_lower, keywords[k])
             THEN score + Count(text_lower, keywords[k])
             ELSE score)

\* The score of theme_keywords[t] on text_lower.
ThemeScore(text_lower, t) == KeywordLoop(text_lower, theme_keywords[t].keywords, 1, 0)

RECURSIVE DetectLoop(_, _, _)
\* The outer loop of extract_themes: detected_themes, the (theme, score) pairs
\* with score > 0 in declaration order.
DetectLoop(text_lower, t, detected_themes) ==
    IF t > Len(theme_keywords) THEN detected_themes
    ELSE LET score == ThemeScore(text_lower, t)
         IN DetectLoop(text_lower, t + 1,
                IF score > 0
                THEN Append(detected_themes,
                            [theme |-> theme_keywords[t].theme, score |-> score])
                ELSE detected_themes)

\* x put into a list sorted by descending score, after the entries that score
\* at least as much.
InsertByScore(sorted, x) ==
    LET n == Cardinality({i \in 1..Len(sorted) : sorted[i].score >= x.score})
    IN SubSeq(sorted, 1, n) \o <<x>> \o SubSeq(sorted, n + 1, Len(sorted))

RECURSIVE SortLoop(_, _, _)
SortLoop(list, i, sorted) ==
    IF i > Len(list) THEN sorted
    ELSE SortLoop(list, i + 1, InsertByScore(sorted, list[i]))

\* detected_themes.sort(key=lambda x: x[1], reverse=True): list.sort is stable,
\* also with reverse=True, so equal scores keep their order.
SortByScore(list) == SortLoop(list, 1, << >>)

\* list[:n] for n >= 0.
Take(list, n) == SubSeq(list, 1, Min(n, Len(list)))

\* Whether text holds any of the words.
ContainsAny(text, words) == \E k \in 1..Len(words) : Contains(text, words[k])

\* The fallback keeps at most this many themes (themes[:3]).
ContentThemesMax == 3

\* ThemeExtractor._extract_content_themes(text).
ExtractContentThemes(text) ==
    LET questions ==
            IF Contains(text, "?")
               \/ ContainsAny(text, <<"why", "how", "what", "when", "where">>)
            THEN <<"questions">> ELSE << >>
        emotional ==
            IF ContainsAny(text, <<"feel", "love", "hate", "sad", "happy",
                                   "angry", "excited">>)
            THEN <<"emotional">> ELSE << >>
        personal ==
            IF ContainsAny(text, <<"i ", "me ", "my ", "myself">>)
            THEN <<"personal_story">> ELSE << >>
        opinion ==
            IF ContainsAny(text, <<"great", "awesome", "love", "amazing",
                                   "excellent">>)
            THEN <<"appreciation">>
            ELSE IF ContainsAny(text, <<"bad", "terrible", "awful", "hate",
                                        "worst">>)
            THEN <<"criticism">> ELSE << >>
    IN Take(questions \o emotional \o personal \o opinion, ContentThemesMax)

\* The themes of the keyword pass: the sorted detected themes cut to max_themes.
TopThemes(text_lower, max_themes) ==
    LET top == Take(SortByScore(DetectLoop(text_lower, 1, << >>)), max_themes)
    IN [i \in 1..Len(top) |-> top[i].theme]

\* ThemeExtractor.extract_themes(text, max_themes), for max_themes >= 0.
\* raises: the computation in the try block raises, and the except branch
\* returns [].
ExtractThemes(text, max_themes, raises) ==
    IF raises THEN << >>
    ELSE LET themes == TopThemes(Lower(text), max_themes)
         IN IF themes = << >> THEN ExtractContentThemes(Lower(text)) ELSE themes

\* `if not themes:` in extract_themes: whether the call answers with the
\* content heuristics, the keyword pass having left an empty list.
UsesFallback(text, max_themes, raises) ==
    ~raises /\ TopThemes(Lower(text), max_themes) = << >>

\* The default of max_themes.
DefaultMaxThemes == 5

(***************************************************************************)
(* PerspectiveAPIClient (services/perspective_api.py).                     *)
(***************************************************************************)

\* The requested attributes, in the order analyze_toxicity reads them.
PerspectiveAttributes ==
    <<"TOXICITY", "SEVERE_TOXICITY", "IDENTITY_ATTACK", "INSULT", "PROFANITY", "THREAT">>

\* The weights of combined_score, in hundredths.
perspective_weights ==
    [TOXICITY |-> 40, SEVERE_TOXICITY |-> 30, IDENTITY_ATTACK |-> 10,
     INSULT |-> 10, PROFANITY |-> 5, THREAT |-> 5]

\* An attribute the response does not carry.
Missing == -1

\* scores.get(attr, {}).get('summaryScore', {}).get('value', 0), in hundredths.
AttributeValue(scores, attr) == IF scores[attr] = Missing THEN 0 ELSE scores[attr]

RECURSIVE WeightedSum(_, _)
\* The weighted combination of the six attribute values, in 1/10000.
WeightedSum(scores, k) ==
    IF k > Len(PerspectiveAttributes) THEN 0
    ELSE AttributeValue(scores, PerspectiveAttributes[k])
             * perspective_weights[PerspectiveAttributes[k]]
         + WeightedSum(scores, k + 1)

\* 1.0 in the unit of the Perspective blend (1/10000).
PerspectiveCap == 10000

\* The status code of a successful response.
HttpOk == 200

\* TryPost without the test of the status code: the body of any response is
\* blended.
TryPost_NoStatusCheck(post) ==
    CASE post.kind = "timeout" -> [exc |-> "TimeoutError", value |-> 0]
      [] post.kind = "error" -> [exc |-> "Exception", value |-> 0]
      [] OTHER -> [exc |-> "none", value |-> Min(WeightedSum(post.scores, 1), PerspectiveCap)]

\* The try block of analyze_toxicity on the outcome of client.post: what it
\* returns, or the exception it raises.  post is the outcome of the network
\* call: a response (status_code, scores), a timeout, or any other error
\* (connection failure, a body that is no JSON, a value that is no number).
TryPost(post) ==
    CASE post.kind = "timeout" -> [exc |-> "TimeoutError", value |-> 0]
      [] post.kind = "error" -> [exc |-> "Exception", value |-> 0]
      [] OTHER ->
           IF post.status_code = HttpOk
           THEN [exc |-> "none", value |-> Min(WeightedSum(post.scores, 1), PerspectiveCap)]
           ELSE [exc |-> "none", value |-> 0]

\* The except clauses of analyze_toxicity: asyncio.TimeoutError and Exception
\* are both caught and answered with 0.0.
CatchPost(tried) ==
    CASE tried.exc = "TimeoutError" -> [exc |-> "none", value |-> 0]
      [] tried.exc = "Exception" -> [exc |-> "none", value |-> 0]
      [] OTHER -> tried

\* PerspectiveAPIClient.analyze_toxicity: the value returned (1/10000), the
\* exception that leaves the method ("none": it returns), and whether the
\* network call was issued.
AnalyzeToxicityRemote(api_key, post) ==
    IF ~api_key
    THEN [exc |-> "none", value |-> 0, posted |-> FALSE]
    ELSE [exc |-> CatchPost(TryPost(post)).exc,
          value |-> CatchPost(TryPost(post)).value,
          posted |-> TRUE]

(***************************************************************************)
(* SentimentAnalyzer (services/sentiment_analyzer.py).  VADER and TextBlob *)
(* are libraries; est is what they answer for the text, in hundredths:     *)
(* est.compound, est.pos, est.neg (VADER) and est.polarity (TextBlob).     *)
(***************************************************************************)

\* SentimentAnalyze as it would be if the except branch answered the label
\* "error".
SentimentAnalyze_ErrorLabel(est, raises) ==
    IF raises
    THEN [label |-> "error", score |-> 0, confidence |-> 0, error |-> TRUE]
    ELSE LET combined_score == est.compound * 7 + est.polarity * 3
         IN [label |-> IF combined_score >= 50 THEN "positive"
                       ELSE IF combined_score <= -50 THEN "negative"
                       ELSE "neutral",
             score |-> combined_score,
             confidence |-> IF combined_score >= 0 THEN combined_score
                            ELSE -combined_score,
             error |-> FALSE]

\* SentimentAnalyzer.analyze: label, score and confidence (score and
\* confidence in 1/1000: compound * 0.7 + polarity * 0.3).  raises: the
\* computation raises and the except branch returns the neutral default.
SentimentAnalyze(est, raises) ==
    IF raises
    THEN [label |-> "neutral", score |-> 0, confidence |-> 0, error |-> TRUE]
    ELSE LET combined_score == est.compound * 7 + est.polarity * 3
         IN [label |-> IF combined_score >= 50 THEN "positive"
                       ELSE IF combined_score <= -50 THEN "negative"
                       ELSE "neutral",
             score |-> combined_score,
             confidence |-> IF combined_score >= 0 THEN combined_score
                            ELSE -combined_score,
             error |-> FALSE]

EmotionNames == {"joy", "anger", "sadness", "fear", "surprise", "disgust"}

\* RawEmotions with the compound score taken as it is, without abs().
RawEmotions_SignedSurprise(est) ==
    [joy |-> Max(0, est.pos * 10),
     anger |-> Max(0, est.neg * 8),
     sadness |-> Max(0, est.neg * 6),
     fear |-> Max(0, est.neg * 4),
     surprise |-> est.compound * 3,
     disgust |-> Max(0, est.neg * 7)]

\* The emotions before the normalisation, in 1/1000.
RawEmotions(est) ==
    [joy |-> Max(0, est.pos * 10),
     anger |-> Max(0, est.neg * 8),
     sadness |-> Max(0, est.neg * 6),
     fear |-> Max(0, est.neg * 4),
     surprise |-> (IF est.compound >= 0 THEN est.compound ELSE -est.compound) * 3,
     disgust |-> Max(0, est.neg * 7)]

\* sum(emotions.values()).
EmotionTotal(raw) ==
    raw.joy + raw.anger + raw.sadness + raw.fear + raw.surprise + raw.disgust

\* SentimentAnalyzer.analyze_emotions: each emotion as a fraction <<num, den>>.
\* When total > 0 every value is divided by total; when it is 0 the values
\* stay as they are (all 0).  raises: the except branch returns all zeros.
AnalyzeEmotions(est, raises) ==
    IF raises
    THEN [e \in EmotionNames |-> <<0, 1>>]
    ELSE LET raw == RawEmotions(est)
             total == EmotionTotal(raw)
         IN IF total > 0
            THEN [e \in EmotionNames |-> <<raw[e], total>>]
            ELSE [e \in EmotionNames |-> <<raw[e], 1000>>]

(***************************************************************************)
(* The service (main.py): one request, the analysis it runs, and the       *)
(* background task it may schedule.                                        *)
(***************************************************************************)

\* The longest batch a client sends.
MaxBatch == 12

\* The number of distinct comment ids; longer batches repeat ids.
NumIds == 5

\* The most faults (an awaited call that raises, a failed update) injected
\* into one request.
MaxFaults == 2

\* analyze_batch processes a batch longer than this in the background.
BatchThreshold == 10

\* The status code of an HTTPException raised by a handler.
HttpError == 500

\* The texts of the comments, each with what the libraries and the external
\* service answer for it: VADER's and TextBlob's scores (hundredths) and the
\* Perspective attribute scores of a 200 response (hundredths).
World ==
    << [content |-> "I love this video, great job!",
        est |-> [compound |-> 85, pos |-> 60, neg |-> 0, polarity |-> 65],
        scores |-> [TOXICITY |-> 2, SEVERE_TOXICITY |-> 0, IDENTITY_ATTACK |-> 0,
                    INSULT |-> 1, PROFANITY |-> 1, THREAT |-> 0]],
       [content |-> "you're stupid, kill yourself",
        est |-> [compound |-> -86, pos |-> 0, neg |-> 75, polarity |-> -80],
        scores |-> [TOXICITY |-> 97, SEVERE_TOXICITY |-> 80, IDENTITY_ATTACK |-> 20,
                    INSULT |-> 95, PROFANITY |-> 60, THREAT |-> 90]],
       [content |-> "hate",
        est |-> [compound |-> -57, pos |-> 0, neg |-> 100, polarity |-> -80],
        scores |-> [TOXICITY |-> 40, SEVERE_TOXICITY |-> 10, IDENTITY_ATTACK |-> 10,
                    INSULT |-> 20, PROFANITY |-> 10, THREAT |-> Missing]] >>

\* The entry of World for a text.
WorldOf(content) == World[CHOOSE k \in 1..Len(World) : World[k].content = content]

\* The position of a text in World.
WorldIndex(content) == CHOOSE k \in 1..Len(World) : World[k].content = content

\* toxicity_detector.analyze on the texts of World, computed once.
WorldToxicity == [k \in 1..Len(World) |-> ToxicityAnalyze(toxicity_detector, World[k].content, FALSE)]

\* theme_extractor.extract_themes on the texts of World, computed once.
WorldThemes ==
    [k \in 1..Len(World) |-> ExtractThemes(World[k].content, DefaultMaxThemes, FALSE)]

\* The i-th comment of a batch (a CommentAnalysisRequest).
Comment(i) ==
    [comment_id |-> ((i - 1) % NumIds) + 1,
     content |-> World[((i - 1) % Len(World)) + 1].content]

\* The requests a client sends: one comment, or a batch of 0..MaxBatch comments.
Requests ==
    {[kind |-> "comment", comments |-> <<Comment(i)>>] : i \in 1..Len(World)}
    \cup {[kind |-> "batch", comments |-> [i \in 1..n |-> Comment(i)]] : n \in 0..MaxBatch}

\* What client.post answers besides the 200 response of World, on the
\* single-comment endpoint.
OtherPosts ==
    { [kind |-> "timeout"],
      [kind |-> "error"],
      [kind |-> "response", status_code |-> 503,
       scores |-> [a \in DOMAIN perspective_weights |-> 100]],
      [kind |-> "response", status_code |-> HttpOk,
       scores |-> [a \in DOMAIN perspective_weights |-> 100]],
      [kind |-> "response", status_code |-> HttpOk,
       scores |-> [a \in DOMAIN perspective_weights |-> Missing]] }

VARIABLES
    api_key,           \* whether GOOGLE_PERSPECTIVE_API_KEY is configured
    request,           \* the request being served
    handler,           \* where the request handler is
    response,          \* what the client got
    results,           \* analyze_batch's results list
    batch_pos,         \* analyze_batch's position in request.comments
    background_tasks,  \* the tasks added with background_tasks.add_task
    bg,                \* the background task: its state and its position
    an,                \* the running analyze_comment call
    store,             \* the comments table: comment id -> analysis fields
    update_calls,      \* the update_comment_analysis calls made, in order
    attempts,          \* the analyze_comment calls of the batch, with their outcome
    net_calls,         \* the client.post calls issued
    faults,            \* the faults injected so far
    probe              \* a scorer called on its own (the scorer specifications)

vars == <<api_key, request, handler, response, results, batch_pos, background_tasks, bg,
          an, store, update_calls, attempts, net_calls, faults, probe>>

\* No response yet.
NoResponse == [status_code |-> 0]

\* No analysis stored for a comment.
NoAnalysis == [analysis_completed_at |-> "never"]

\* No scorer is probed (the service specification).
NoProbe == [fn |-> "none"]

\* No network call decided yet.
NoPost == [kind |-> "unset"]

\* No CommentAnalysisResponse.
NoResult == [comment_id |-> 0]

\* The locals of analyze_comment before any of them is assigned.
IdleAnalysis ==
    [pc |-> "idle", caller |-> "none", index |-> 0,
     comment_id |-> 0, content |-> "",
     completed |-> {},
     sentiment_result |-> [label |-> "unset", score |-> 0, confidence |-> 0, error |-> FALSE],
     toxicity_result |-> 0,
     themes |-> << >>,
     emotions |-> [e \in EmotionNames |-> <<0, 1>>],
     perspective_toxicity |-> 0,
     response |-> NoResult,
     degraded |-> {},
     post |-> NoPost]

\* A call of analyze_comment(comment_req) by caller, for the comment at
\* position index of the batch (0: the single-comment endpoint).
StartAnalysis(caller, index, comment_req) ==
    [IdleAnalysis EXCEPT !.pc = "sentiment", !.caller = caller, !.index = index,
                         !.comment_id = comment_req.comment_id,
                         !.content = comment_req.content]

\* CombineToxicity with the two weights swapped.
CombineToxicity_Swapped(toxicity_result, perspective_toxicity) ==
    toxicity_result * 300 + perspective_toxicity * 7

\* combined_toxicity = toxicity_result * 0.7 + perspective_toxicity * 0.3, in
\* 1/100000: toxicity_result is in hundredths, perspective_toxicity in 1/10000.
CombineToxicity(toxicity_result, perspective_toxicity) ==
    toxicity_result * 700 + perspective_toxicity * 3

\* The CommentAnalysisResponse analyze_comment builds from its locals.
BuildResponse(frame) ==
    [comment_id |-> frame.comment_id,
     sentiment |-> frame.sentiment_result.label,
     sentiment_score |-> frame.sentiment_result.score,
     toxicity_score |-> CombineToxicity(frame.toxicity_result, frame.perspective_toxicity),
     themes |-> frame.themes,
     emotions |-> frame.emotions]

\* AnalyzeExcept as it would be if the except branch returned a response built
\* from the locals assigned so far.
AnalyzeExcept_Partial(frame) ==
    [frame EXCEPT !.pc = "returned", !.response = BuildResponse(frame)]

\* The except branch of analyze_comment: the error is logged and an
\* HTTPException(500) leaves the call; nothing is returned.
AnalyzeExcept(frame) == [frame EXCEPT !.pc = "raised"]

\* AnalysisData with the toxicity score taken from the wrong field.
AnalysisData_WrongField(result) ==
    [sentiment |-> result.sentiment,
     sentiment_score |-> result.sentiment_score,
     toxicity_score |-> result.sentiment_score,
     themes |-> result.themes,
     emotions |-> result.emotions,
     analysis_completed_at |-> "now()"]

\* The analysis_data process_batch_analysis passes to update_comment_analysis.
AnalysisData(result) ==
    [sentiment |-> result.sentiment,
     sentiment_score |-> result.sentiment_score,
     toxicity_score |-> result.toxicity_score,
     themes |-> result.themes,
     emotions |-> result.emotions,
     analysis_completed_at |-> "now()"]

\* SupabaseClient.update_comment_analysis: the table afterwards and the value
\* returned.  outcome is what the database call does: "updated" (response.data
\* holds the row), "no_data" (it is empty) or "exception" (caught, False).
UpdateCommentAnalysis(table, comment_id, analysis_data, outcome) ==
    IF outcome = "updated"
    THEN [table |-> [table EXCEPT ![comment_id] = analysis_data], ret |-> TRUE]
    ELSE [table |-> table, ret |-> FALSE]

\* IsLargeBatch with >= for >.
IsLargeBatch_AtThreshold(comments) == Len(comments) >= BatchThreshold

\* if len(request.comments) > 10
IsLargeBatch(comments) == Len(comments) > BatchThreshold

(***************************************************************************)
(* The state after construction, and the steps.                            *)
(***************************************************************************)

Init ==
    /\ api_key \in BOOLEAN
    /\ request \in Requests
    /\ handler = "start"
    /\ response = NoResponse
    /\ results = << >>
    /\ batch_pos = 0
    /\ background_tasks = << >>
    /\ bg = [state |-> "none", task |-> 0, pos |-> 0]
    /\ an = IdleAnalysis
    /\ store = [id \in 1..NumIds |-> NoAnalysis]
    /\ update_calls = << >>
    /\ attempts = << >>
    /\ net_calls = 0
    /\ faults = 0
    /\ probe = NoProbe

\* The service's variables an analysis step leaves alone.
callerVars == <<api_key, request, handler, response, results, batch_pos,
                background_tasks, bg, store, update_calls, probe>>

\* attempts with a new call of analyze_comment on the comment at index.
Attempted(index) == Append(attempts, [index |-> index, outcome |-> "running", result |-> NoResult])

\* attempts with the outcome of the running call.
Ended(outcome, result) ==
    [attempts EXCEPT ![Len(attempts)] = [@ EXCEPT !.outcome = outcome, !.result = result]]

\* Whether a sub-scorer's own computation may fail here: such failures are
\* explored on the single-comment endpoint.
SoftChoices == IF request.kind = "comment" THEN BOOLEAN ELSE {FALSE}

\* What client.post may answer for the text: the 200 response of World and,
\* on the single-comment endpoint, the other outcomes.
Posts(content) ==
    {[kind |-> "response", status_code |-> HttpOk, scores |-> WorldOf(content).scores]}
    \cup (IF request.kind = "comment" THEN OtherPosts ELSE {})

\* An awaited call raises into analyze_comment's try block: the except branch
\* runs.
AwaitRaises ==
    /\ faults < MaxFaults
    /\ faults' = faults + 1
    /\ an' = AnalyzeExcept(an)
    /\ attempts' = Ended(IF AnalyzeExcept(an).pc = "raised" THEN "raised" ELSE "returned",
                         AnalyzeExcept(an).response)
    /\ net_calls' = net_calls

\* An awaited call returns value: it is assigned to the local and the next
\* await follows.  soft: the value is the callee's default after a failure of
\* its own computation.
AwaitReturns(name, local, value, next, soft) ==
    /\ an' = [an EXCEPT ![local] = value, !.completed = @ \cup {name}, !.pc = next,
                        !.degraded = IF soft THEN @ \cup {name} ELSE @]
    /\ UNCHANGED <<attempts, faults>>

\* sentiment_result = await sentiment_analyzer.analyze(request.content)
AwaitSentiment ==
    /\ an.pc = "sentiment"
    /\ \/ /\ \E raises \in SoftChoices :
               AwaitReturns("sentiment", "sentiment_result",
                            SentimentAnalyze(WorldOf(an.content).est, raises), "toxicity",
                            raises)
          /\ net_calls' = net_calls
       \/ AwaitRaises
    /\ UNCHANGED callerVars

\* toxicity_result = await toxicity_detector.analyze(request.content)
AwaitToxicity ==
    /\ an.pc = "toxicity"
    /\ \/ /\ \E raises \in SoftChoices :
               AwaitReturns("toxicity", "toxicity_result",
                            IF raises THEN ToxicityAnalyze(toxicity_detector, an.content, TRUE)
                            ELSE WorldToxicity[WorldIndex(an.content)], "themes", raises)
          /\ net_calls' = net_calls
       \/ AwaitRaises
    /\ UNCHANGED callerVars

\* themes = await theme_extractor.extract_themes(request.content)
AwaitThemes ==
    /\ an.pc = "themes"
    /\ \/ /\ \E raises \in SoftChoices :
               AwaitReturns("themes", "themes",
                            IF raises THEN ExtractThemes(an.content, DefaultMaxThemes, TRUE)
                            ELSE WorldThemes[WorldIndex(an.content)], "emotions", raises)
          /\ net_calls' = net_calls
       \/ AwaitRaises
    /\ UNCHANGED callerVars

\* emotions = await sentiment_analyzer.analyze_emotions(request.content)
AwaitEmotions ==
    /\ an.pc = "emotions"
    /\ \/ /\ \E raises \in SoftChoices :
               AwaitReturns("emotions", "emotions",
                            AnalyzeEmotions(WorldOf(an.content).est, raises), "perspective",
                            raises)
          /\ net_calls' = net_calls
       \/ AwaitRaises
    /\ UNCHANGED callerVars

\* perspective_toxicity = await perspective_client.analyze_toxicity(request.content)
\* The frame's post records the outcome of the network call ("none": no call).
AwaitPerspective ==
    /\ an.pc = "perspective"
    /\ \/ \E post \in Posts(an.content) :
            LET r == AnalyzeToxicityRemote(api_key, post)
                seen == [an EXCEPT !.post = IF r.posted THEN post ELSE [kind |-> "none"]]
            IN /\ net_calls' = net_calls + (IF r.posted THEN 1 ELSE 0)
               /\ faults' = faults
               /\ IF r.exc = "none"
                  THEN /\ an' = [seen EXCEPT !.perspective_toxicity = r.value,
                                             !.completed = @ \cup {"perspective"},
                                             !.pc = "respond"]
                       /\ attempts' = attempts
                  ELSE /\ an' = AnalyzeExcept(seen)
                       /\ attempts' = Ended(IF AnalyzeExcept(seen).pc = "raised"
                                            THEN "raised" ELSE "returned",
                                            AnalyzeExcept(seen).response)
       \/ AwaitRaises
    /\ UNCHANGED callerVars

\* response = CommentAnalysisResponse(...); return response
ReturnResponse ==
    /\ an.pc = "respond"
    /\ an' = [an EXCEPT !.pc = "returned", !.response = BuildResponse(an)]
    /\ attempts' = Ended("returned", BuildResponse(an))
    /\ UNCHANGED <<net_calls, faults>>
    /\ UNCHANGED callerVars

\* POST /analyze/comment: the endpoint calls analyze_comment on the request.
ReceiveComment ==
    /\ handler = "start"
    /\ request.kind = "comment"
    /\ handler' = "awaiting"
    /\ an' = StartAnalysis("endpoint", 0, request.comments[1])
    /\ attempts' = Attempted(0)
    /\ UNCHANGED <<api_key, request, response, results, batch_pos, background_tasks,
                   bg, store, update_calls, net_calls, faults, probe>>

\* analyze_comment returned: the client gets the CommentAnalysisResponse.
CommentReturn ==
    /\ handler = "awaiting"
    /\ an.pc = "returned"
    /\ response' = [status_code |-> HttpOk, body |-> an.response]
    /\ handler' = "responded"
    /\ an' = IdleAnalysis
    /\ UNCHANGED <<api_key, request, results, batch_pos, background_tasks, bg, store,
                   update_calls, attempts, net_calls, faults, probe>>

\* analyze_comment raised HTTPException(500): the client gets the error.
CommentRaise ==
    /\ handler = "awaiting"
    /\ an.pc = "raised"
    /\ response' = [status_code |-> HttpError, detail |-> "Analysis failed"]
    /\ handler' = "responded"
    /\ an' = IdleAnalysis
    /\ UNCHANGED <<api_key, request, results, batch_pos, background_tasks, bg, store,
                   update_calls, attempts, net_calls, faults, probe>>

\* POST /analyze/batch, up to the loop: a large batch is handed to a
\* background task and answered at once; a small one starts the loop.
ReceiveBatch ==
    /\ handler = "start"
    /\ request.kind = "batch"
    /\ IF IsLargeBatch(request.comments)
       THEN /\ background_tasks' = Append(background_tasks, request.comments)
            /\ response' = [status_code |-> HttpOk,
                            body |-> [message |-> "Batch analysis started",
                                      status |-> "processing"]]
            /\ handler' = "responded"
            /\ UNCHANGED <<results, batch_pos>>
       ELSE /\ results' = << >>
            /\ batch_pos' = 1
            /\ handler' = "loop"
            /\ UNCHANGED <<background_tasks, response>>
    /\ UNCHANGED <<api_key, request, bg, an, store, update_calls, attempts, net_calls,
                   faults, probe>>

\* for comment_req in request.comments: result = await analyze_comment(comment_req)
LoopCall ==
    /\ handler = "loop"
    /\ an.pc = "idle"
    /\ batch_pos <= Len(request.comments)
    /\ an' = StartAnalysis("batch", batch_pos, request.comments[batch_pos])
    /\ attempts' = Attempted(batch_pos)
    /\ UNCHANGED <<api_key, request, handler, response, results, batch_pos,
                   background_tasks, bg, store, update_calls, net_calls, faults, probe>>

\* LoopAppend as it would be if the synchronous loop persisted each result
\* the way process_batch_analysis does.
LoopAppend_Persists ==
    /\ handler = "loop"
    /\ an.pc = "returned"
    /\ results' = Append(results, an.response)
    /\ batch_pos' = batch_pos + 1
    /\ store' = UpdateCommentAnalysis(store, an.comment_id,
                                      AnalysisData(an.response), "updated").table
    /\ update_calls' = Append(update_calls,
                              [index |-> batch_pos, comment_id |-> an.comment_id,
                               analysis_data |-> AnalysisData(an.response),
                               ret |-> TRUE])
    /\ an' = IdleAnalysis
    /\ UNCHANGED <<api_key, request, handler, response, background_tasks, bg,
                   attempts, net_calls, faults, probe>>

\* results.append(result)
LoopAppend ==
    /\ handler = "loop"
    /\ an.pc = "returned"
    /\ results' = Append(results, an.response)
    /\ batch_pos' = batch_pos + 1
    /\ an' = IdleAnalysis
    /\ UNCHANGED <<api_key, request, handler, response, background_tasks, bg, store,
                   update_calls, attempts, net_calls, faults, probe>>

\* LoopExcept as it would be without the inner try: the failure reaches the
\* outer except branch and the batch ends with HTTPException(500).
LoopExcept_Aborts ==
    /\ handler = "loop"
    /\ an.pc = "raised"
    /\ response' = [status_code |-> HttpError, detail |-> "Batch analysis failed"]
    /\ handler' = "responded"
    /\ an' = IdleAnalysis
    /\ UNCHANGED <<api_key, request, results, batch_pos, background_tasks, bg,
                   store, update_calls, attempts, net_calls, faults, probe>>

\* except Exception: the failure is logged; continue
LoopExcept ==
    /\ handler = "loop"
    /\ an.pc = "raised"
    /\ batch_pos' = batch_pos + 1
    /\ an' = IdleAnalysis
    /\ UNCHANGED <<api_key, request, handler, response, results, background_tasks, bg,
                   store, update_calls, attempts, net_calls, faults, probe>>

\* return {"results": results, "status": "completed"}
LoopReturn ==
    /\ handler = "loop"
    /\ an.pc = "idle"
    /\ batch_pos > Len(request.comments)
    /\ response' = [status_code |-> HttpOk,
                    body |-> [results |-> results, status |-> "completed"]]
    /\ handler' = "responded"
    /\ UNCHANGED <<api_key, request, results, batch_pos, background_tasks, bg, an,
                   store, update_calls, attempts, net_calls, faults, probe>>

\* The response is sent; the background task added by the handler starts.
BgStart ==
    /\ handler = "responded"
    /\ bg.state = "none"
    /\ background_tasks # << >>
    /\ bg' = [state |-> "running", task |-> 1, pos |-> 1]
    /\ UNCHANGED <<api_key, request, handler, response, results, batch_pos,
                   background_tasks, an, store, update_calls, attempts, net_calls,
                   faults, probe>>

\* BgCall as it would be if the persistence call were left running: the next
\* comment is taken up as soon as the analysis has returned.
BgCall_Overtakes ==
    /\ bg.state = "running"
    /\ an.pc \in {"idle", "returned"}
    /\ LET pos == IF an.pc = "returned" THEN bg.pos + 1 ELSE bg.pos
       IN /\ pos <= Len(background_tasks[bg.task])
          /\ an' = StartAnalysis("background", pos, background_tasks[bg.task][pos])
          /\ attempts' = Attempted(pos)
          /\ bg' = [bg EXCEPT !.pos = pos]
    /\ UNCHANGED <<api_key, request, handler, response, results, batch_pos,
                   background_tasks, store, update_calls, net_calls, faults, probe>>

\* process_batch_analysis: result = await analyze_comment(comment_req)
BgCall ==
    /\ bg.state = "running"
    /\ an.pc = "idle"
    /\ bg.pos <= Len(background_tasks[bg.task])
    /\ an' = StartAnalysis("background", bg.pos, background_tasks[bg.task][bg.pos])
    /\ attempts' = Attempted(bg.pos)
    /\ UNCHANGED <<api_key, request, handler, response, results, batch_pos,
                   background_tasks, bg, store, update_calls, net_calls, faults, probe>>

\* process_batch_analysis: await supabase_client.update_comment_analysis(...);
\* its return value is not read, and the loop goes on.
BgPersist ==
    /\ bg.state = "running"
    /\ an.pc = "returned"
    /\ \E outcome \in {"updated", "no_data", "exception"} :
          LET u == UpdateCommentAnalysis(store, an.comment_id,
                                         AnalysisData(an.response), outcome)
          IN /\ outcome # "updated" => faults < MaxFaults
             /\ faults' = faults + (IF outcome = "updated" THEN 0 ELSE 1)
             /\ store' = u.table
             /\ update_calls' = Append(update_calls,
                                       [index |-> bg.pos, comment_id |-> an.comment_id,
                                        analysis_data |-> AnalysisData(an.response),
                                        ret |-> u.ret])
    /\ bg' = [bg EXCEPT !.pos = @ + 1]
    /\ an' = IdleAnalysis
    /\ UNCHANGED <<api_key, request, handler, response, results, batch_pos,
                   background_tasks, attempts, net_calls, probe>>

\* BgExcept as it would be with break for continue: a failure ends the task.
BgExcept_Stops ==
    /\ bg.state = "running"
    /\ an.pc = "raised"
    /\ bg' = [bg EXCEPT !.state = "done"]
    /\ an' = IdleAnalysis
    /\ UNCHANGED <<api_key, request, handler, response, results, batch_pos,
                   background_tasks, store, update_calls, attempts, net_calls,
                   faults, probe>>

\* process_batch_analysis: except Exception: the failure is logged; continue
BgExcept ==
    /\ bg.state = "running"
    /\ an.pc = "raised"
    /\ bg' = [bg EXCEPT !.pos = @ + 1]
    /\ an' = IdleAnalysis
    /\ UNCHANGED <<api_key, request, handler, response, results, batch_pos,
                   background_tasks, store, update_calls, attempts, net_calls,
                   faults, probe>>

\* process_batch_analysis: the loop is over ("Batch analysis completed").
BgFinish ==
    /\ bg.state = "running"
    /\ an.pc = "idle"
    /\ bg.pos > Len(background_tasks[bg.task])
    /\ bg' = [bg EXCEPT !.state = "done"]
    /\ UNCHANGED <<api_key, request, handler, response, results, batch_pos,
                   background_tasks, an, store, update_calls, attempts, net_calls,
                   faults, probe>>

Next ==
    \/ ReceiveComment
    \/ CommentReturn
    \/ CommentRaise
    \/ ReceiveBatch
    \/ LoopCall
    \/ LoopAppend
    \/ LoopExcept
    \/ LoopReturn
    \/ BgStart
    \/ BgCall
    \/ BgPersist
    \/ BgExcept
    \/ BgFinish
    \/ AwaitSentiment
    \/ AwaitToxicity
    \/ AwaitThemes
    \/ AwaitEmotions
    \/ AwaitPerspective
    \/ ReturnResponse

Spec == Init /\ [][Next]_vars

\* The event loop runs every task that can take a step.
FairSpec == Spec /\ WF_vars(Next)

(***************************************************************************)
(* The claims about the service.                                           *)
(***************************************************************************)

\* The sub-analyses analyze_comment awaits.
SubAnalyses == {"sentiment", "toxicity", "themes", "emotions", "perspective"}

\* The positions of the batch on which analyze_comment was called, in call order.
AttemptIndexes == [k \in 1..Len(attempts) |-> attempts[k].index]

\* The attempts that returned a result, in call order.
Returned == SelectSeq(attempts, LAMBDA a : a.outcome = "returned")

\* Whether the request is a batch that has been answered.
BatchAnswered == request.kind = "batch" /\ response # NoResponse

\* C1: analyze_batch chooses its mode by the batch size alone.  A batch of at
\* most 10 comments (0 and 10 included) is answered with status "completed"
\* and a results list once every comment has been attempted, and no background
\* task is ever scheduled for it.  A batch of more than 10 (11 included) is
\* answered with status "processing", a message and no results field, exactly
\* one background task holding the whole batch is scheduled, and no comment
\* is analysed before the answer.
C1_ModeByBatchSize ==
    request.kind = "batch" =>
        IF Len(request.comments) <= 10
        THEN /\ background_tasks = << >>
             /\ bg.state = "none"
             /\ response # NoResponse =>
                   /\ response.status_code = 200
                   /\ DOMAIN response.body = {"results", "status"}
                   /\ response.body.status = "completed"
                   /\ Len(attempts) = Len(request.comments)
        ELSE /\ response = NoResponse => attempts = << >> /\ background_tasks = << >>
             /\ response # NoResponse =>
                   /\ response.status_code = 200
                   /\ DOMAIN response.body = {"message", "status"}
                   /\ response.body.status = "processing"
                   /\ background_tasks = <<request.comments>>
                   /\ results = << >>
             /\ bg.state = "none" => attempts = << >>

\* C1's case: a batch of exactly 11 comments has been answered "processing"
\* and none of its comments has been analysed yet.
C1_Witness ==
    /\ BatchAnswered
    /\ Len(request.comments) = 11
    /\ response.body.status = "processing"
    /\ bg.state = "none"
    /\ attempts = << >>

\* C2: on the synchronous path the answer's results are exactly the results of
\* the comments whose analyze_comment call returned, in input order, one per
\* such comment; every comment was attempted once, in input order; a failed
\* comment is skipped, and the status is "completed" whatever failed.
C2_SyncResultsAreTheSuccesses ==
    (BatchAnswered /\ Len(request.comments) <= 10) =>
        /\ response.status_code = 200
        /\ response.body.status = "completed"
        /\ AttemptIndexes = [k \in 1..Len(request.comments) |-> k]
        /\ response.body.results = [k \in 1..Len(Returned) |-> Returned[k].result]
        /\ \A k \in 1..Len(Returned) :
              Returned[k].result.comment_id = request.comments[Returned[k].index].comment_id

\* C2's case: a synchronous batch answered after a failed comment was followed
\* by a comment that succeeded.
C2_Witness ==
    /\ BatchAnswered
    /\ Len(request.comments) <= 10
    /\ \E k \in 1..(Len(attempts) - 1) :
          attempts[k].outcome = "raised" /\ attempts[k + 1].outcome = "returned"
    /\ Len(response.body.results) = Len(request.comments) - 2

\* Whether the background task has gone through its whole batch: every comment
\* attempted once, in input order, each attempt ended.
BgRanToCompletion ==
    /\ bg.state = "done"
    /\ AttemptIndexes = [k \in 1..Len(background_tasks[1]) |-> k]
    /\ \A k \in 1..Len(attempts) : attempts[k].outcome \in {"returned", "raised"}
    /\ Len(update_calls) = Len(Returned)

\* C3: a scheduled background task runs to completion: it ends only after
\* every comment of the batch was attempted exactly once in input order,
\* whatever analyses or updates failed on the way, and it does end.
C3_BackgroundRunsToCompletion ==
    /\ [](bg.state = "done" => BgRanToCompletion)
    /\ (background_tasks # << >>) ~> BgRanToCompletion

\* C3's case: the task is done after an analysis failed and an update failed,
\* both before a later comment that was analysed and persisted.
C3_Witness ==
    /\ bg.state = "done"
    /\ \E k \in 1..(Len(attempts) - 1) : attempts[k].outcome = "raised"
    /\ \E k \in 1..(Len(update_calls) - 1) : ~update_calls[k].ret
    /\ attempts[Len(attempts)].outcome = "returned"
    /\ update_calls[Len(update_calls)].index = Len(background_tasks[1])
    /\ update_calls[Len(update_calls)].ret

\* The update_comment_analysis calls due so far: one per returned attempt, but
\* for a result just returned and not yet handed on.
DueUpdates ==
    IF an.pc = "returned" THEN SubSeq(Returned, 1, Len(Returned) - 1) ELSE Returned

\* C4: in the background path the update_comment_analysis calls are, in order,
\* exactly one per comment occurrence whose analysis returned: none for a
\* failed analysis, none repeated after a failed update; each call carries the
\* id of its comment and the sentiment, sentiment_score, toxicity_score,
\* themes and emotions of that comment's own result.
C4_UpdatePerSuccess ==
    bg.state # "none" =>
        /\ Len(update_calls) = Len(DueUpdates)
        /\ \A k \in 1..Len(update_calls) :
              LET call == update_calls[k]
                  result == DueUpdates[k].result
              IN /\ call.index = DueUpdates[k].index
                 /\ call.comment_id = background_tasks[1][call.index].comment_id
                 /\ call.comment_id = result.comment_id
                 /\ call.analysis_data.sentiment = result.sentiment
                 /\ call.analysis_data.sentiment_score = result.sentiment_score
                 /\ call.analysis_data.toxicity_score = result.toxicity_score
                 /\ call.analysis_data.themes = result.themes
                 /\ call.analysis_data.emotions = result.emotions

\* C4's case: the task is done, an update failed and was not repeated, an
\* analysis failed and got no update.
C4_Witness ==
    /\ bg.state = "done"
    /\ \E k \in 1..Len(update_calls) : ~update_calls[k].ret
    /\ \E k \in 1..Len(attempts) : attempts[k].outcome = "raised"
    /\ Len(update_calls) = Len(attempts) - 1

\* C5: analyze_comment is all-or-nothing.  A call that returned has completed
\* all five sub-analyses and its response is built from their five values; a
\* call in which a sub-analysis raised returns no response at all, and the
\* single-comment endpoint answers it with an error.
C5_AllOrNothing ==
    /\ an.pc = "returned" =>
          /\ an.completed = SubAnalyses
          /\ an.response.sentiment = an.sentiment_result.label
          /\ an.response.sentiment_score = an.sentiment_result.score
          /\ an.response.themes = an.themes
          /\ an.response.emotions = an.emotions
          /\ an.response.comment_id = an.comment_id
    /\ an.completed # SubAnalyses => an.response = NoResult
    /\ \A k \in 1..Len(attempts) :
          \/ attempts[k].outcome = "returned" /\ attempts[k].result # NoResult
          \/ attempts[k].outcome \in {"running", "raised"} /\ attempts[k].result = NoResult
    /\ (request.kind = "comment" /\ response # NoResponse) =>
          IF attempts[1].outcome = "raised"
          THEN response = [status_code |-> 500, detail |-> "Analysis failed"]
          ELSE response = [status_code |-> 200, body |-> attempts[1].result]

\* C5's case: on the single-comment endpoint the last sub-analysis raised
\* after the other four had completed, and the call ended without a response.
C5_Witness ==
    /\ request.kind = "comment"
    /\ an.pc = "raised"
    /\ an.completed = SubAnalyses \ {"perspective"}
    /\ an.response = NoResult
    /\ attempts[1].outcome = "raised"

\* Whether the network call of the running analysis counts as the external
\* service being unavailable: no key (no call), a timeout, an error, or a
\* status other than 200.
ExternalUnavailable ==
    \/ an.post.kind \in {"none", "timeout", "error"}
    \/ an.post.kind = "response" /\ an.post.status_code # 200

\* C6: the toxicity_score of a result is local * 0.7 + external * 0.3, local
\* being what toxicity_detector.analyze returned and external what
\* analyze_toxicity returned; when the external service is unavailable the
\* external term is 0, the score is local * 0.7, and the call of the service
\* completes without failing the analysis.
C6_ToxicityFusion ==
    /\ an.pc = "returned" =>
          10 * an.response.toxicity_score =
              7 * (1000 * an.toxicity_result) + 3 * (10 * an.perspective_toxicity)
    /\ (an.post # NoPost /\ ExternalUnavailable) =>
          /\ an.pc \in {"respond", "returned"}
          /\ "perspective" \in an.completed
          /\ an.perspective_toxicity = 0
          /\ an.pc = "returned" => an.response.toxicity_score = an.toxicity_result * 700
    /\ (an.pc = "returned" /\ "toxicity" \notin an.degraded) =>
          an.toxicity_result = WorldToxicity[WorldIndex(an.content)]

\* C6's case: the service timed out on a text with a local score above 0, and
\* the analysis returned.
C6_Witness ==
    /\ an.pc = "returned"
    /\ an.post.kind = "timeout"
    /\ an.toxicity_result > 0
    /\ an.response.toxicity_score > 0

\* Whether a severe-tier pattern matches the text.
SevereMatch(text) ==
    \E k \in 1..Len(toxic_patterns) :
        pattern_severity[k] = "severe" /\ PatternMatches(toxicity_detector, k, Lower(text))

\* SevereMatch on the texts of World, computed once.
WorldSevere == [k \in 1..Len(World) |-> SevereMatch(World[k].content)]

\* Whether the running analysis has returned a result for a text that a
\* severe-tier pattern matches, the detector not having failed.
SevereAnalysed ==
    /\ an.pc = "returned"
    /\ WorldSevere[WorldIndex(an.content)]
    /\ "toxicity" \notin an.degraded

\* C8 as claimed: a comment whose text matches a severe-tier pattern gets a
\* toxicity score of at least 0.9 in its analysis.
C8_AsClaimed == SevereAnalysed => an.response.toxicity_score >= 90000

\* C8 as amended: for such a comment the local score (toxicity_detector.analyze)
\* is at least 0.9, and the toxicity score of its analysis is at least 0.63
\* (0.9 * 0.7), and at most local * 0.7 + 0.3.
C8_SevereLocalScore ==
    SevereAnalysed =>
        /\ an.toxicity_result >= 90
        /\ an.response.toxicity_score >= 63000
        /\ an.response.toxicity_score <= an.toxicity_result * 700 + 30000

\* C8's case: the analysis of "you're stupid, kill yourself" has returned,
\* with the external service answering 200.
C8_Witness ==
    /\ SevereAnalysed
    /\ an.content = "you're stupid, kill yourself"
    /\ an.post.kind = "response"
    /\ an.post.status_code = 200

(***************************************************************************)
(* The scorers called on their own: each specification draws the inputs of *)
(* one method from a bounded set and calls it once.                        *)
(***************************************************************************)

\* The service's variables when no request is served.
ServiceOff ==
    /\ request = [kind |-> "none", comments |-> << >>]
    /\ handler = "off"
    /\ response = NoResponse
    /\ results = << >>
    /\ batch_pos = 0
    /\ background_tasks = << >>
    /\ bg = [state |-> "none", task |-> 0, pos |-> 0]
    /\ an = IdleAnalysis
    /\ store = [id \in 1..NumIds |-> NoAnalysis]
    /\ update_calls = << >>
    /\ attempts = << >>
    /\ net_calls = 0
    /\ faults = 0

\* The variables a call of a scorer leaves alone.
serviceVars == <<request, handler, response, results, batch_pos, background_tasks,
                 bg, an, store, update_calls, attempts, faults>>

\* An attribute value is one of 0, 1/ScoreSteps, ..., 1.
ScoreSteps == 2

\* The attribute values of a response, in hundredths, and Missing.
ScoreLevels == {(100 * k) \div ScoreSteps : k \in 0..ScoreSteps} \cup {Missing}

\* The outcomes of client.post: a timeout, another error, a response with a
\* status other than 200, or a 200 response with any attribute values.
ProbePosts ==
    {[kind |-> "timeout"], [kind |-> "error"]}
    \cup {[kind |-> "response", status_code |-> c,
           scores |-> [a \in DOMAIN perspective_weights |-> 100]] : c \in {204, 403, 500}}
    \cup {[kind |-> "response", status_code |-> HttpOk, scores |-> sc] :
             sc \in [DOMAIN perspective_weights -> ScoreLevels]}

PerspectiveInit ==
    /\ ServiceOff
    /\ api_key \in BOOLEAN
    /\ probe \in {[fn |-> "analyze_toxicity", pc |-> "call", post |-> post,
                   exc |-> "none", ret |-> 0] : post \in ProbePosts}

\* await perspective_client.analyze_toxicity(text), the network answering
\* probe.post.
CallAnalyzeToxicity ==
    /\ probe.fn = "analyze_toxicity"
    /\ probe.pc = "call"
    /\ LET r == AnalyzeToxicityRemote(api_key, probe.post)
       IN /\ probe' = [probe EXCEPT !.pc = "done", !.exc = r.exc, !.ret = r.value]
          /\ net_calls' = net_calls + (IF r.posted THEN 1 ELSE 0)
    /\ UNCHANGED <<api_key, serviceVars>>

PerspectiveNext == CallAnalyzeToxicity

PerspectiveSpec == PerspectiveInit /\ [][PerspectiveNext]_vars

\* The words the probed texts are made of.
ThemeWords == <<"hate", "Love", "bad", "why", "my">>

\* A probed text holds at most this many words.
MaxWords == 3

\* extract_themes is probed with max_themes in 0..MaxThemesArg.
MaxThemesArg == 3

RECURSIVE TextsOf(_, _)
\* The texts of at most n words of words, joined by single spaces.
TextsOf(words, n) ==
    IF n = 0 THEN {""}
    ELSE LET shorter == TextsOf(words, n - 1)
         IN shorter \cup {IF t = "" THEN words[k] ELSE t \o " " \o words[k] :
                             t \in shorter, k \in 1..Len(words)}

ThemeInit ==
    /\ ServiceOff
    /\ api_key = FALSE
    /\ probe \in {[fn |-> "extract_themes", pc |-> "call", text |-> t, max_themes |-> m,
                   raises |-> r, ret |-> << >>, fallback |-> FALSE] :
                     t \in TextsOf(ThemeWords, MaxWords), m \in 0..MaxThemesArg,
                     r \in BOOLEAN}

\* await theme_extractor.extract_themes(text, max_themes)
CallExtractThemes ==
    /\ probe.fn = "extract_themes"
    /\ probe.pc = "call"
    /\ probe' = [probe EXCEPT !.pc = "done",
                              !.ret = ExtractThemes(probe.text, probe.max_themes,
                                                    probe.raises),
                              !.fallback = UsesFallback(probe.text, probe.max_themes,
                                                        probe.raises)]
    /\ UNCHANGED <<api_key, net_calls, serviceVars>>

ThemeNext == CallExtractThemes

ThemeSpec == ThemeInit /\ [][ThemeNext]_vars

(***************************************************************************)
(* The claims about the scorers.                                           *)
(***************************************************************************)

\* The value of an attribute of the probed response, 0 when it is missing.
ProbeValue(attr) ==
    IF probe.post.scores[attr] = Missing THEN 0 ELSE probe.post.scores[attr]

\* Whether the probed call got a 200 response.
ProbeOk == probe.post.kind = "response" /\ probe.post.status_code = 200

\* C7: analyze_toxicity never lets an exception out and returns a value in
\* [0, 1]: 0.0 and no network call without an API key; with a key, 0.0 on a
\* timeout, on any other error and on a status other than 200, and on a 200
\* response min(1, toxicity * 0.4 + severe_toxicity * 0.3 + identity_attack
\* * 0.1 + insult * 0.1 + profanity * 0.05 + threat * 0.05), a missing
\* attribute counting as 0.
C7_PerspectiveNeverRaises ==
    (probe.fn = "analyze_toxicity" /\ probe.pc = "done") =>
        /\ probe.exc = "none"
        /\ probe.ret >= 0
        /\ probe.ret <= 10000
        /\ ~api_key => probe.ret = 0 /\ net_calls = 0
        /\ api_key => net_calls = 1
        /\ (api_key /\ ~ProbeOk) => probe.ret = 0
        /\ (api_key /\ ProbeOk) =>
              LET blend == ProbeValue("TOXICITY") * 40
                           + ProbeValue("SEVERE_TOXICITY") * 30
                           + ProbeValue("IDENTITY_ATTACK") * 10
                           + ProbeValue("INSULT") * 10
                           + ProbeValue("PROFANITY") * 5
                           + ProbeValue("THREAT") * 5
              IN probe.ret = (IF blend > 10000 THEN 10000 ELSE blend)

\* C7's case: with a key configured the call has answered a 200 response that
\* lacks an attribute and scores the others above 0.
C7_Witness ==
    /\ probe.fn = "analyze_toxicity"
    /\ probe.pc = "done"
    /\ api_key
    /\ ProbeOk
    /\ probe.post.scores["THREAT"] = Missing
    /\ probe.post.scores["TOXICITY"] = 100
    /\ probe.ret > 0

\* C9 as claimed: extract_themes returns at most max_themes themes.
C9_AsClaimed ==
    (probe.fn = "extract_themes" /\ probe.pc = "done") =>
        Len(probe.ret) <= probe.max_themes

\* The scores of the taxonomy's themes on the probed text.
ProbeScores == [t \in 1..Len(theme_keywords) |-> ThemeScore(Lower(probe.text), t)]

\* Whether theme t comes before theme u in the ranking: a higher score, or
\* the same score and an earlier declaration.
RankedBefore(scores, t, u) ==
    scores[t] > scores[u] \/ (scores[t] = scores[u] /\ t < u)

\* The k-th theme of the ranking of the themes that score above 0.
RankedTheme(scores, k) ==
    LET positive == {t \in DOMAIN scores : scores[t] > 0}
        t == CHOOSE t \in positive :
                 Cardinality({u \in positive : RankedBefore(scores, u, t)}) = k - 1
    IN theme_keywords[t].theme

\* C10 as claimed: when a theme scores above 0, extract_themes returns exactly
\* the first max_themes themes of the ranking of the themes that score above
\* 0 (descending score, ties in declaration order).
C10_AsClaimed ==
    (probe.fn = "extract_themes" /\ probe.pc = "done" /\ ~probe.raises) =>
        LET scores == ProbeScores
            positive == {t \in DOMAIN scores : scores[t] > 0}
            n == IF probe.max_themes < Cardinality(positive)
                 THEN probe.max_themes ELSE Cardinality(positive)
        IN positive # {} =>
              probe.ret = [k \in 1..n |-> RankedTheme(scores, k)]

(***************************************************************************)
(* CommentTagger (services/comment_tagger.py).  The service of main.py     *)
(* neither imports nor constructs it; it is modelled as the class it is.   *)
(***************************************************************************)

\* A literal piece of a regex alternative.
Lit(s) == [lit |-> s, class |-> "", min |-> 0, max |-> 0, open |-> FALSE]

\* \d{min,max} (class "d") or \w{min,max} (class "w").
Run(class, min, max) == [lit |-> "", class |-> class, min |-> min, max |-> max, open |-> FALSE]

\* \d+ (class "d") or \w+ (class "w").
OneOrMore(class) == [lit |-> "", class |-> class, min |-> 1, max |-> 0, open |-> TRUE]

\* self.tag_patterns, in declaration order (a dict keeps insertion order).
\* A pattern is r"\?$" (kind "suffix": $ matches at the end of the text and
\* before a newline that ends it) or r"\b(alt|alt|...)\b" (kind
\* "bounded"), whose alternatives are literals ("words") or sequences of
\* literals and \d / \w runs ("shapes").  The emoji alternatives of "Inside
\* Joke/Meme" are left out: the texts are ASCII, so none of them can match.
tag_patterns ==
 << [tag |-> "Product Praise",
     patterns |-> <<
           [kind |-> "bounded", suffix |-> "",
            words |-> <<
                "love", "great", "amazing", "awesome", "fantastic",
                "excellent", "brilliant", "perfect", "wonderful",
                "outstanding", "superb", "incredible", "helpful", "useful",
                "beneficial", "valuable", "thanks", "thank you", "appreciate",
                "grateful" >>,
            shapes |-> << >>],
           [kind |-> "bounded", suffix |-> "",
            words |-> <<
                "best", "favorite", "top", "outstanding", "phenomenal",
                "spectacular", "marvelous", "splendid", "magnificent" >>,
            shapes |-> << >>] >>],
    [tag |-> "Feature Request",
     patterns |-> <<
           [kind |-> "bounded", suffix |-> "",
            words |-> <<
                "i wish", "can you add", "would be better if",
                "please include", "please add", "could you add",
                "it would be great if", "would love to see", "hope you add",
                "suggest adding" >>,
            shapes |-> << >>],
           [kind |-> "bounded", suffix |-> "",
            words |-> <<
                "feature request", "new feature", "missing feature",
                "add support for", "implement", "add option for" >>,
            shapes |-> << >>] >>],
    [tag |-> "Hate Speech",
     patterns |-> <<
           [kind |-> "bounded", suffix |-> "",
            words |-> <<
                "kill yourself", "die", "hate you", "you suck",
                "you're stupid", "you're dumb", "you're an idiot",
                "you're worthless", "you're trash", "you're garbage",
                "you're useless", "you're pathetic", "you're a joke",
                "you're a loser" >>,
            shapes |-> << >>],
           [kind |-> "bounded", suffix |-> "",
            words |-> <<
                "fuck you", "fuck off", "go to hell", "burn in hell",
                "rot in hell", "piece of shit", "worthless piece of shit",
                "stupid ass", "dumb ass", "idiot", "moron", "retard" >>,
            shapes |-> << >>] >>],
    [tag |-> "Feedback",
     patterns |-> <<
           [kind |-> "bounded", suffix |-> "",
            words |-> <<
                "feedback", "suggestion", "improvement", "constructive",
                "criticism", "advice", "tip", "recommendation", "input",
                "comment", "thought", "idea" >>,
            shapes |-> << >>],
           [kind |-> "bounded", suffix |-> "",
            words |-> <<
                "could be better", "needs improvement", "suggest",
                "recommend", "consider", "think about", "maybe try",
                "perhaps", "might want to" >>,
            shapes |-> << >>] >>],
    [tag |-> "Confusion/Question",
     patterns |-> <<
           [kind |-> "suffix", suffix |-> "?", words |-> << >>, shapes |-> << >>],
           [kind |-> "bounded", suffix |-> "",
            words |-> <<
                "what", "how", "why", "when", "where", "who", "which",
                "can you explain", "i don't understand", "confused",
                "unclear", "not sure", "what's going on", "how do i",
                "what does this mean" >>,
            shapes |-> << >>],
           [kind |-> "bounded", suffix |-> "",
            words |-> <<
                "help", "clarify", "explain", "elaborate", "what do you mean",
                "i'm confused", "not clear", "unclear", "puzzled" >>,
            shapes |-> << >>] >>],
    [tag |-> "Spam",
     patterns |-> <<
           [kind |-> "bounded", suffix |-> "",
            words |-> <<
                "check out my", "visit my", "follow me", "subscribe to my",
                "my channel", "my video", "my content", "my website",
                "my blog", "my instagram", "my tiktok", "my twitter" >>,
            shapes |-> << >>],
           [kind |-> "bounded", suffix |-> "",
            words |-> <<
                "promote", "advertisement", "sponsored", "paid", "commission",
                "affiliate", "link in bio", "click here", "buy now",
                "limited time", "offer", "deal", "discount" >>,
            shapes |-> << >>],
           [kind |-> "bounded", suffix |-> "",
            words |-> <<
                "bot", "automated", "script", "program", "algorithm",
                "auto-generated", "spam", "repetitive", "copied", "duplicate" >>,
            shapes |-> << >>] >>],
    [tag |-> "Callout",
     patterns |-> <<
           [kind |-> "bounded", suffix |-> "",
            words |-> <<
                "error", "mistake", "wrong", "incorrect", "false",
                "misleading", "inaccurate", "false information", "wrong info",
                "not true", "that's wrong", "you're wrong", "incorrect",
                "mistake", "error", "bug", "glitch", "problem", "issue" >>,
            shapes |-> << >>],
           [kind |-> "bounded", suffix |-> "",
            words |-> <<
                "misquote", "misquoted", "taken out of context",
                "misinterpreted", "misunderstood", "misrepresented" >>,
            shapes |-> << >>] >>],
    [tag |-> "Timestamp Reference",
     patterns |-> <<
           [kind |-> "bounded", suffix |-> "",
            words |-> <<
                "timestamp" >>,
            shapes |-> << <<Run("d", 1, 2), Lit(":"), Run("d", 2, 2)>>,
                  <<Lit("at "), Run("d", 1, 2), Lit(":"), Run("d", 2, 2)>>,
                  <<Lit("minute "), OneOrMore("d")>>,
                  <<Lit("second "), OneOrMore("d")>>,
                  <<OneOrMore("d"), Lit(":"), OneOrMore("d"), Lit(" had me")>>,
                  <<Lit("at "), OneOrMore("d"), Lit(":"), OneOrMore("d")>> >>],
           [kind |-> "bounded", suffix |-> "",
            words |-> << >>,
            shapes |-> << <<Lit("time "), OneOrMore("d"), Lit(":"), OneOrMore("d")>>,
                  <<Lit("mark "), OneOrMore("d"), Lit(":"), OneOrMore("d")>>,
                  <<Lit("around "), OneOrMore("d"), Lit(":"), OneOrMore("d")>>,
                  <<Lit("near "), OneOrMore("d"), Lit(":"), OneOrMore("d")>>,
                  <<Lit("about "), OneOrMore("d"), Lit(":"), OneOrMore("d")>> >>] >>],
    [tag |-> "Requests/Ideas",
     patterns |-> <<
           [kind |-> "bounded", suffix |-> "",
            words |-> <<
                "do a part 2", "make another", "next video", "cover this",
                "you have to check out", "you should try", "you need to see",
                "you must visit", "you have to go to", "recommend", "suggest",
                "idea for", "next time", "in the future" >>,
            shapes |-> << >>],
           [kind |-> "bounded", suffix |-> "",
            words |-> <<
                "restaurant", "cafe", "place", "location", "spot", "venue",
                "establishment", "joint", "eatery", "dining", "food", "meal",
                "dish", "cuisine" >>,
            shapes |-> << >>] >>],
    [tag |-> "Praise for Creator",
     patterns |-> <<
           [kind |-> "bounded", suffix |-> "",
            words |-> <<
                "you're amazing", "you're awesome", "you're great",
                "you're the best", "love your channel", "love you",
                "you're incredible", "you're wonderful", "you're fantastic",
                "you're brilliant", "you're perfect", "you're outstanding" >>,
            shapes |-> << >>],
           [kind |-> "bounded", suffix |-> "",
            words |-> <<
                "creator", "youtuber", "influencer", "content creator",
                "host", "presenter", "speaker", "teacher", "instructor",
                "guide", "mentor", "role model" >>,
            shapes |-> << >>] >>],
    [tag |-> "Praise for Video",
     patterns |-> <<
           [kind |-> "bounded", suffix |-> "",
            words |-> <<
                "this edit", "this video", "this content", "this episode",
                "this tutorial", "this guide", "this explanation",
                "this demonstration", "this presentation", "this lesson",
                "this class", "this session" >>,
            shapes |-> << >>],
           [kind |-> "bounded", suffix |-> "",
            words |-> <<
                "editing", "production", "quality", "cinematography",
                "filming", "recording", "audio", "visual", "graphics",
                "effects", "transitions", "music", "sound" >>,
            shapes |-> << >>] >>],
    [tag |-> "Community Interaction",
     patterns |-> <<
           [kind |-> "bounded", suffix |-> "",
            words |-> <<
                "tag", "mention", "reply to", "respond to", "answer",
                "respond", "reply", "comment on", "discuss", "debate",
                "conversation", "dialogue", "exchange" >>,
            shapes |-> << <<Lit("@"), OneOrMore("w")>> >>],
           [kind |-> "bounded", suffix |-> "",
            words |-> <<
                "other video", "another video", "previous video",
                "last video", "next video", "related video", "similar video",
                "check out", "watch", "see also", "also see" >>,
            shapes |-> << >>] >>],
    [tag |-> "Inside Joke/Meme",
     patterns |-> <<
           [kind |-> "bounded", suffix |-> "",
            words |-> <<
                "meme", "joke", "funny", "hilarious", "lol", "lmao", "rofl",
                "haha" >>,
            shapes |-> << >>],
           [kind |-> "bounded", suffix |-> "",
            words |-> <<
                "reference", "callback", "throwback", "nostalgia",
                "remember when", "good times", "classic", "legendary",
                "iconic", "famous", "viral", "trending" >>,
            shapes |-> << >>] >>],
    [tag |-> "Sensitive Topics",
     patterns |-> <<
           [kind |-> "bounded", suffix |-> "",
            words |-> <<
                "politics", "political", "government", "election", "vote",
                "democrat", "republican", "liberal", "conservative", "left",
                "right", "progressive", "traditional" >>,
            shapes |-> << >>],
           [kind |-> "bounded", suffix |-> "",
            words |-> <<
                "religion", "religious", "god", "jesus", "christ", "bible",
                "church", "mosque", "temple", "prayer", "faith", "belief",
                "spiritual", "divine", "holy", "sacred" >>,
            shapes |-> << >>],
           [kind |-> "bounded", suffix |-> "",
            words |-> <<
                "abortion", "contraception", "birth control", "pregnancy",
                "reproductive", "pro-choice", "pro-life", "women's rights",
                "gender", "sexuality", "lgbtq", "transgender", "non-binary" >>,
            shapes |-> << >>] >>],
    [tag |-> "Potential Conflict",
     patterns |-> <<
           [kind |-> "bounded", suffix |-> "",
            words |-> <<
                "argument", "debate", "dispute", "conflict", "controversy",
                "disagreement", "opposition", "rivalry", "competition",
                "fight", "battle", "war", "attack", "defend", "defense",
                "offensive", "aggressive", "hostile", "angry", "mad",
                "furious", "enraged" >>,
            shapes |-> << >>],
           [kind |-> "bounded", suffix |-> "",
            words |-> <<
                "triggered", "offended", "upset", "annoyed", "irritated",
                "frustrated", "disappointed", "disgusted", "appalled",
                "shocked", "outraged", "infuriated" >>,
            shapes |-> << >>] >>],
    [tag |-> "Toxicity",
     patterns |-> <<
           [kind |-> "bounded", suffix |-> "",
            words |-> <<
                "toxic", "poisonous", "harmful", "damaging", "destructive",
                "negative", "hostile", "aggressive", "abusive", "insulting",
                "offensive", "disrespectful", "rude", "mean", "cruel",
                "harsh", "brutal", "vicious", "malicious", "spiteful",
                "hateful" >>,
            shapes |-> << >>],
           [kind |-> "bounded", suffix |-> "",
            words |-> <<
                "trigger", "triggered", "snowflake", "sensitive",
                "easily offended", "overreacting", "dramatic", "exaggerating",
                "making a big deal", "blowing things out of proportion" >>,
            shapes |-> << >>] >>] >>

\* re's \d or \w for one character.
InClass(c, class) == IF class = "d" THEN CharIn(c, Digits) ELSE IsWordChar(c)

RECURSIVE RunLength(_, _, _)
\* The number of consecutive characters of the class in s from position i on.
RunLength(s, i, class) ==
    IF i > Len(s) \/ ~InClass(CharAt(s, i), class) THEN 0
    ELSE 1 + RunLength(s, i + 1, class)

RECURSIVE ShapeEnds(_, _, _, _)
\* The positions just after a match of shape[k], shape[k+1], ... that starts
\* at position i of s (every repetition count the regex engine can settle on).
ShapeEnds(s, i, shape, k) ==
    IF k > Len(shape) THEN {i}
    ELSE IF shape[k].class = ""
    THEN IF OccursAt(s, shape[k].lit, i)
         THEN ShapeEnds(s, i + Len(shape[k].lit), shape, k + 1)
         ELSE {}
    ELSE LET avail == RunLength(s, i, shape[k].class)
             most == IF shape[k].open THEN avail ELSE Min(avail, shape[k].max)
         IN UNION {ShapeEnds(s, i + n, shape, k + 1) : n \in shape[k].min..most}

\* re.search(r'\b(shape)\b', s).
MatchesShape(s, shape) ==
    \E i \in 1..(Len(s) + 1) :
        /\ Boundary(s, i)
        /\ \E e \in ShapeEnds(s, i, shape, 1) : Boundary(s, e)

\* re.search(pattern, text_lower, re.IGNORECASE) for one pattern of a category.
TagPatternMatches(pattern, text_lower) ==
    IF pattern.kind = "suffix"
    THEN \/ OccursAt(text_lower, pattern.suffix,
                     Len(text_lower) - Len(pattern.suffix) + 1)
         \/ OccursAt(text_lower, pattern.suffix \o "\n",
                     Len(text_lower) - Len(pattern.suffix))
    ELSE \/ MatchesAnyWord(text_lower, pattern.words)
         \/ \E k \in 1..Len(pattern.shapes) : MatchesShape(text_lower, pattern.shapes[k])

\* The inner loop over the patterns of category c, left at the first match.
CategoryMatches(c, text_lower) ==
    \E p \in 1..Len(tag_patterns[c].patterns) :
        TagPatternMatches(tag_patterns[c].patterns[p], text_lower)

RECURSIVE CategoryLoop(_, _, _)
\* The loop over the categories: each category that matches is appended once.
CategoryLoop(text_lower, c, detected_tags) ==
    IF c > Len(tag_patterns) THEN detected_tags
    ELSE CategoryLoop(text_lower, c + 1,
             IF CategoryMatches(c, text_lower)
             THEN Append(detected_tags, tag_patterns[c].tag)
             ELSE detected_tags)

\* The elements of a sequence.
Range(seq) == {seq[k] : k \in 1..Len(seq)}

\* Escalate with the first rule only.
Escalate_HateOnly(detected_tags) ==
    IF "Hate Speech" \in Range(detected_tags)
    THEN Append(detected_tags, "Toxicity")
    ELSE detected_tags

\* "Special logic for certain combinations": the two appends, in this order.
Escalate(detected_tags) ==
    LET hate == IF "Hate Speech" \in Range(detected_tags)
                THEN Append(detected_tags, "Toxicity")
                ELSE detected_tags
    IN IF "Sensitive Topics" \in Range(hate)
       THEN Append(hate, "Potential Conflict")
       ELSE hate

\* UniqueLoop that appends every tag.
UniqueLoop_KeepsAll(detected_tags, k, unique_tags) == detected_tags

RECURSIVE UniqueLoop(_, _, _)
\* "Remove duplicates while preserving order": a tag is appended to
\* unique_tags unless it is already there.
UniqueLoop(detected_tags, k, unique_tags) ==
    IF k > Len(detected_tags) THEN unique_tags
    ELSE UniqueLoop(detected_tags, k + 1,
             IF detected_tags[k] \in Range(unique_tags)
             THEN unique_tags
             ELSE Append(unique_tags, detected_tags[k]))

\* Python's None as a primary_tag.
NoTag == "None"

\* CommentTagger.tag_comment(text).  raises: the computation in the try block
\* raises, and the except branch returns the empty result with an error.
TagComment(text, raises) ==
    IF raises
    THEN [tags |-> << >>, tag_count |-> 0, primary_tag |-> NoTag, error |-> TRUE]
    ELSE LET unique_tags == UniqueLoop(Escalate(CategoryLoop(Lower(text), 1, << >>)), 1, << >>)
         IN [tags |-> unique_tags,
             tag_count |-> Len(unique_tags),
             primary_tag |-> IF unique_tags # << >> THEN unique_tags[1] ELSE NoTag,
             error |-> FALSE]

\* The words the tagged texts are made of.
TagWords == <<"idiot", "rude", "god", "angry", "love", "why?", "1:23">>

\* A tagged text holds at most this many words.
MaxTagWords == 2

\* The texts tag_comment is called on.
TagTexts == TextsOf(TagWords, MaxTagWords) \cup {"you're stupid, kill yourself"}

TagInit ==
    /\ ServiceOff
    /\ api_key = FALSE
    /\ probe \in {[fn |-> "tag_comment", pc |-> "call", text |-> t, raises |-> r,
                   ret |-> TagComment("", TRUE)] : t \in TagTexts, r \in BOOLEAN}

\* await comment_tagger.tag_comment(text)
CallTagComment ==
    /\ probe.fn = "tag_comment"
    /\ probe.pc = "call"
    /\ probe' = [probe EXCEPT !.pc = "done", !.ret = TagComment(probe.text, probe.raises)]
    /\ UNCHANGED <<api_key, net_calls, serviceVars>>

TagNext == CallTagComment

TagSpec == TagInit /\ [][TagNext]_vars

\* Whether the tagger has answered a text without failing.
Tagged == probe.fn = "tag_comment" /\ probe.pc = "done" /\ ~probe.raises

\* C11: the tag list returned by tag_comment contains "Toxicity" whenever it
\* contains "Hate Speech", and "Potential Conflict" whenever it contains
\* "Sensitive Topics", whether or not the implied tag matched a pattern of its
\* own.
C11_EscalationRules ==
    (probe.fn = "tag_comment" /\ probe.pc = "done") =>
        /\ "Hate Speech" \in Range(probe.ret.tags) => "Toxicity" \in Range(probe.ret.tags)
        /\ "Sensitive Topics" \in Range(probe.ret.tags) =>
               "Potential Conflict" \in Range(probe.ret.tags)

\* The index of a tag in the taxonomy.
TagIndex(tag) == CHOOSE c \in 1..Len(tag_patterns) : tag_patterns[c].tag = tag

\* C11's case: "god" matches "Sensitive Topics" and no pattern of "Potential
\* Conflict", and the answer holds both.
C11_Witness ==
    /\ Tagged
    /\ probe.text = "god"
    /\ ~CategoryMatches(TagIndex("Potential Conflict"), Lower(probe.text))
    /\ probe.ret.tags = <<"Sensitive Topics", "Potential Conflict">>

\* The place of a tag in the first-seen order for a text: its taxonomy index
\* when one of its patterns matches, else behind every category, "Toxicity"
\* before "Potential Conflict".
SeenRank(tag, text_lower) ==
    IF CategoryMatches(TagIndex(tag), text_lower) THEN TagIndex(tag)
    ELSE Len(tag_patterns) + (IF tag = "Toxicity" THEN 1 ELSE 2)

\* The tags a text is due: the categories that match, "Toxicity" with "Hate
\* Speech", "Potential Conflict" with "Sensitive Topics".
DueTags(text_lower) ==
    LET matched == {tag_patterns[c].tag : c \in {c \in 1..Len(tag_patterns) :
                                                    CategoryMatches(c, text_lower)}}
    IN matched
       \cup (IF "Hate Speech" \in matched THEN {"Toxicity"} ELSE {})
       \cup (IF "Sensitive Topics" \in matched THEN {"Potential Conflict"} ELSE {})

\* C12: the tag list holds no tag twice and is in first-seen order (matched
\* categories in taxonomy order, then the tags only escalation appended); a
\* tag both matched and appended stays at its matched place; tag_count is the
\* length of the list and primary_tag its first element, or none.
C12_UniqueFirstSeenOrder ==
    (probe.fn = "tag_comment" /\ probe.pc = "done") =>
        LET tags == probe.ret.tags
            text_lower == Lower(probe.text)
        IN /\ \A j, k \in 1..Len(tags) : j # k => tags[j] # tags[k]
           /\ ~probe.raises =>
                 /\ Range(tags) = DueTags(text_lower)
                 /\ \A j, k \in 1..Len(tags) :
                        j < k => SeenRank(tags[j], text_lower) < SeenRank(tags[k], text_lower)
           /\ probe.ret.tag_count = Len(tags)
           /\ probe.ret.primary_tag = (IF tags = << >> THEN NoTag ELSE tags[1])

\* C12's case: "idiot rude" matches "Hate Speech" and "Toxicity", escalation
\* appends "Toxicity" a second time, and the answer holds it once.
C12_Witness ==
    /\ Tagged
    /\ probe.text = "idiot rude"
    /\ CategoryMatches(TagIndex("Toxicity"), Lower(probe.text))
    /\ probe.ret.tags = <<"Hate Speech", "Toxicity">>
    /\ probe.ret.tag_count = 2
    /\ probe.ret.primary_tag = "Hate Speech"

(***************************************************************************)
(* ToxicityDetector.analyze called on its own: repeatedly on one detector  *)
(* (DetectorSpec), and once on each text of a vocabulary (ToxicitySpec).   *)
(***************************************************************************)

\* One detector receives at most this many calls.
MaxCalls == 4

\* The arguments of the calls: three texts, and a value on which the
\* computation raises (one that is no str).
DetectorInputs ==
    {[text |-> "damn", raises |-> FALSE],
     [text |-> "hate damn", raises |-> FALSE],
     [text |-> "KILL YOURSELF NOW!!!!", raises |-> FALSE],
     [text |-> "None", raises |-> TRUE]}

DetectorInit ==
    /\ ServiceOff
    /\ api_key = FALSE
    /\ probe = [fn |-> "toxicity_calls", self |-> ToxicityDetectorNew, trace |-> << >>]

\* await detector.analyze(input): one more call on the same detector.
CallAnalyze(input) ==
    /\ probe.fn = "toxicity_calls"
    /\ Len(probe.trace) < MaxCalls
    /\ probe' = [probe EXCEPT
                    !.trace = Append(@, [input |-> input,
                                         ret |-> ToxicityAnalyze(probe.self, input.text,
                                                                 input.raises)]),
                    !.self = SelfAfterAnalyze(probe.self, input.text)]
    /\ UNCHANGED <<api_key, net_calls, serviceVars>>

DetectorNext == \E input \in DetectorInputs : CallAnalyze(input)

DetectorSpec == DetectorInit /\ [][DetectorNext]_vars

\* C13: analyze returns a value in [0, 1], the same value for the same text
\* however many calls were made and whatever other texts were analysed in
\* between, and no call changes the patterns or the weights of the detector.
C13_AnalyzeDeterministic ==
    probe.fn = "toxicity_calls" =>
        /\ \A k \in 1..Len(probe.trace) :
               probe.trace[k].ret >= 0 /\ probe.trace[k].ret <= 100
        /\ \A j, k \in 1..Len(probe.trace) :
               probe.trace[j].input = probe.trace[k].input =>
                   probe.trace[j].ret = probe.trace[k].ret
        /\ probe.self.toxic_patterns = toxic_patterns
        /\ probe.self.severity_weights = severity_weights
        /\ probe.self.pattern_severity = pattern_severity

\* C13's case: "damn" is analysed, then "hate damn", then "damn" again, and
\* both calls on "damn" answer 0.3.
C13_Witness ==
    /\ probe.fn = "toxicity_calls"
    /\ Len(probe.trace) = 3
    /\ probe.trace[1].input.text = "damn"
    /\ probe.trace[2].input.text = "hate damn"
    /\ probe.trace[3].input.text = "damn"
    /\ probe.trace[1].ret = 30
    /\ probe.trace[2].ret = 60
    /\ probe.trace[3].ret = 30

\* The words the scored texts are made of: a moderate and a mild word, a
\* severe phrase in upper case, four exclamation marks, a letter five times,
\* five empty lines.
ToxWords == <<"hate", "damn", "KILL YOURSELF", "!!!!", "ooooo", "\n\n\n\n\n">>

\* A scored text holds at most this many words.
MaxToxWords == 3

ToxicityInit ==
    /\ ServiceOff
    /\ api_key = FALSE
    /\ probe \in {[fn |-> "toxicity_analyze", pc |-> "call", text |-> t, ret |-> 0] :
                     t \in TextsOf(ToxWords, MaxToxWords)}

\* await toxicity_detector.analyze(text)
CallToxicityAnalyze ==
    /\ probe.fn = "toxicity_analyze"
    /\ probe.pc = "call"
    /\ probe' = [probe EXCEPT !.pc = "done",
                              !.ret = ToxicityAnalyze(toxicity_detector, probe.text, FALSE)]
    /\ UNCHANGED <<api_key, net_calls, serviceVars>>

ToxicityNext == CallToxicityAnalyze

ToxicitySpec == ToxicityInit /\ [][ToxicityNext]_vars

\* The weights (in hundredths) of the pattern categories that match a text.
MatchedWeights(text) ==
    {[mild |-> 30, moderate |-> 60, severe |-> 90][pattern_severity[k]] :
        k \in {k \in 1..Len(toxic_patterns) :
                  PatternMatches(toxicity_detector, k, Lower(text))}}

\* The maximum of the weights of the matching categories, 0 when none
\* matches.
MaxMatchedWeight(text) ==
    LET weights == MatchedWeights(text)
    IN IF weights = {} THEN 0 ELSE CHOOSE w \in weights : \A v \in weights : v <= w

\* Whether some character stands five times in a row in the text.
FiveInARow(text) ==
    \E i \in 1..(Len(text) - 4) : \A k \in 1..4 : CharAt(text, i + k) = CharAt(text, i)

\* C19 as claimed: the local score is min(1, M + B): M the maximum of the
\* weights (mild 0.3, moderate 0.6, severe 0.9) of the categories that match,
\* 0 when none does; B the sum of +0.1 (longer than 10 and upper case), +0.05
\* (more than 3 exclamation marks) and +0.05 (some character 5 times in a
\* row).  A further matching category never lowers the score.
C19_AsClaimed ==
    (probe.fn = "toxicity_analyze" /\ probe.pc = "done") =>
        LET M == MaxMatchedWeight(probe.text)
            B == (IF Len(probe.text) > 10 /\ IsUpper(probe.text) THEN 10 ELSE 0)
                 + (IF Count(probe.text, "!") > 3 THEN 5 ELSE 0)
                 + (IF FiveInARow(probe.text) THEN 5 ELSE 0)
        IN /\ probe.ret = (IF M + B > 100 THEN 100 ELSE M + B)
           /\ \A w \in MatchedWeights(probe.text) : probe.ret >= w

\* What holds of the local score: the formula of C19 on every text in which
\* no newline stands five times in a row, and on every text with the last
\* bump earned only by a character other than a newline.
LocalScoreFormula ==
    (probe.fn = "toxicity_analyze" /\ probe.pc = "done") =>
        LET M == MaxMatchedWeight(probe.text)
            repeated == \E i \in 1..(Len(probe.text) - 4) :
                            /\ CharAt(probe.text, i) # "\n"
                            /\ \A k \in 1..4 :
                                   CharAt(probe.text, i + k) = CharAt(probe.text, i)
            B == (IF Len(probe.text) > 10 /\ IsUpper(probe.text) THEN 10 ELSE 0)
                 + (IF Count(probe.text, "!") > 3 THEN 5 ELSE 0)
                 + (IF repeated THEN 5 ELSE 0)
        IN /\ probe.ret = (IF M + B > 100 THEN 100 ELSE M + B)
           /\ \A w \in MatchedWeights(probe.text) : probe.ret >= w

(***************************************************************************)
(* SentimentAnalyzer.analyze_emotions called on its own (EmotionSpec).     *)
(***************************************************************************)

\* An estimator output is one of 0, 1/EmotionSteps, ..., 1 (and, for the
\* compound score, the negatives of these).
EmotionSteps == 2

\* The values of pos and neg, in hundredths.
UnitLevels == {(100 * k) \div EmotionSteps : k \in 0..EmotionSteps}

\* The values of compound, in hundredths.
SignedLevels == UnitLevels \cup {-v : v \in UnitLevels}

EmotionInit ==
    /\ ServiceOff
    /\ api_key = FALSE
    /\ probe \in {[fn |-> "analyze_emotions", pc |-> "call",
                   est |-> [pos |-> p, neg |-> n, compound |-> c],
                   raises |-> r, ret |-> [e \in EmotionNames |-> <<0, 1>>]] :
                     p \in UnitLevels, n \in UnitLevels, c \in SignedLevels, r \in BOOLEAN}

\* await sentiment_analyzer.analyze_emotions(text), VADER answering probe.est.
CallAnalyzeEmotions ==
    /\ probe.fn = "analyze_emotions"
    /\ probe.pc = "call"
    /\ probe' = [probe EXCEPT !.pc = "done",
                              !.ret = AnalyzeEmotions(probe.est, probe.raises)]
    /\ UNCHANGED <<api_key, net_calls, serviceVars>>

EmotionNext == CallAnalyzeEmotions

EmotionSpec == EmotionInit /\ [][EmotionNext]_vars

\* The sum of the numerators of a distribution.
NumeratorSum(dist) ==
    dist["joy"][1] + dist["anger"][1] + dist["sadness"][1] + dist["fear"][1]
    + dist["surprise"][1] + dist["disgust"][1]

\* C14: the distribution analyze_emotions returns has a value >= 0 for each of
\* the six emotions; the values sum to 1 when pos, neg or compound is not 0;
\* when all are 0, or when the computation fails, all six values are 0; no
\* value is a quotient by 0.
C14_EmotionDistribution ==
    (probe.fn = "analyze_emotions" /\ probe.pc = "done") =>
        LET dist == probe.ret
            signal == probe.est.pos # 0 \/ probe.est.neg # 0 \/ probe.est.compound # 0
        IN /\ DOMAIN dist = {"joy", "anger", "sadness", "fear", "surprise", "disgust"}
           /\ \A e \in DOMAIN dist : dist[e][1] >= 0 /\ dist[e][2] > 0
           /\ \A e, f \in DOMAIN dist : dist[e][2] = dist[f][2]
           /\ (signal /\ ~probe.raises) => NumeratorSum(dist) = dist["joy"][2]
           /\ (~signal \/ probe.raises) => \A e \in DOMAIN dist : dist[e][1] = 0

\* C14's case: pos = 0.5, neg = 0.5 and compound = -0.5 give joy 0.5 of a
\* total of 1.9, and the six values sum to 1.
C14_Witness ==
    /\ probe.fn = "analyze_emotions"
    /\ probe.pc = "done"
    /\ ~probe.raises
    /\ probe.est = [pos |-> 50, neg |-> 50, compound |-> -50]
    /\ probe.ret["joy"] = <<500, 1900>>
    /\ probe.ret["surprise"] = <<150, 1900>>
    /\ NumeratorSum(probe.ret) = 1900

(***************************************************************************)
(* The claims about the service, continued.                                *)
(***************************************************************************)

\* C15: a failure of a sub-scorer's own computation never fails the comment.
\* The scorer answers its default (label "neutral" with score 0.0 and
\* confidence 0.0, all-zero emotions, toxicity 0.0, no theme), analyze_comment
\* raises only when an awaited call itself raises, and the result it returns
\* is complete: the default on each failed axis, the real value on the others.
C15_SoftErrorsDegrade ==
    /\ "sentiment" \in an.degraded =>
           /\ an.sentiment_result.label = "neutral"
           /\ an.sentiment_result.score = 0
           /\ an.sentiment_result.confidence = 0
    /\ "toxicity" \in an.degraded => an.toxicity_result = 0
    /\ "themes" \in an.degraded => an.themes = << >>
    /\ "emotions" \in an.degraded =>
           \A e \in {"joy", "anger", "sadness", "fear", "surprise", "disgust"} :
               an.emotions[e][1] = 0
    /\ an.pc = "raised" => faults > 0
    /\ an.pc = "returned" =>
           LET world == WorldOf(an.content)
               sentiment == SentimentAnalyze(world.est, FALSE)
               emotions == AnalyzeEmotions(world.est, FALSE)
               local == IF "toxicity" \in an.degraded THEN 0
                        ELSE WorldToxicity[WorldIndex(an.content)]
           IN /\ an.completed = {"sentiment", "toxicity", "themes", "emotions", "perspective"}
              /\ an.response.comment_id = an.comment_id
              /\ an.response.sentiment =
                     (IF "sentiment" \in an.degraded THEN "neutral" ELSE sentiment.label)
              /\ an.response.sentiment_score =
                     (IF "sentiment" \in an.degraded THEN 0 ELSE sentiment.score)
              /\ an.response.toxicity_score = local * 700 + an.perspective_toxicity * 3
              /\ an.response.themes =
                     (IF "themes" \in an.degraded THEN << >>
                      ELSE WorldThemes[WorldIndex(an.content)])
              /\ \A e \in DOMAIN emotions :
                     an.response.emotions[e] =
                         (IF "emotions" \in an.degraded THEN <<0, 1>> ELSE emotions[e])

\* C15's case: the sentiment and the theme computations failed on "you're
\* stupid, kill yourself", and the analysis returned a result with the
\* defaults on these two axes and the local score 0.9 in the toxicity.
C15_Witness ==
    /\ an.pc = "returned"
    /\ an.content = "you're stupid, kill yourself"
    /\ an.degraded = {"sentiment", "themes"}
    /\ an.response.sentiment = "neutral"
    /\ an.response.themes = << >>
    /\ an.response.toxicity_score >= 63000
    /\ an.response.emotions["anger"][1] > 0

\* The scoring component an awaited sub-analysis of analyze_comment belongs
\* to.  No await of analyze_comment calls the TagClassifier (CommentTagger):
\* main.py neither imports nor constructs it.
ComponentOf(name) ==
    CASE name = "sentiment" -> "SentimentScorer"
      [] name = "emotions" -> "SentimentScorer"
      [] name = "toxicity" -> "ToxicityScorer"
      [] name = "perspective" -> "ToxicityScorer"
      [] name = "themes" -> "ThemeRanker"

\* The components the running analysis has invoked on the comment's text.
InvokedComponents == {ComponentOf(name) : name \in an.completed}

\* C16 as claimed: when the result of an analysis is assembled, all four
\* scoring components - SentimentScorer, ToxicityScorer, ThemeRanker and
\* TagClassifier - have been invoked on the comment's text.
C16_AsClaimed ==
    an.pc \in {"respond", "returned"} =>
        {"SentimentScorer", "ToxicityScorer", "ThemeRanker", "TagClassifier"}
            \subseteq InvokedComponents

\* C17 as claimed: the sub-analyses are fanned out and joined with a
\* join-all.  Each is started whatever happens to the others, so once the
\* result of one is in hand all of them have been started; and the call fails
\* only once every sub-analysis has completed or failed, so when it has
\* raised at most one of them has not completed.
C17_AsClaimed ==
    /\ (an.pc \in SubAnalyses /\ an.completed # {}) =>
           an.completed \cup {an.pc} = SubAnalyses
    /\ an.pc = "raised" => Cardinality(an.completed) >= Cardinality(SubAnalyses) - 1

\* C18: within one batch the analyses never overlap and follow the input
\* order, on the synchronous path and on the background path: the k-th call
\* of analyze_comment is on the k-th comment, only the latest call can be in
\* progress, and on the background path the call on comment k+1 starts only
\* after the persistence call for comment k (made when its analysis returned)
\* has ended.
C18_NoOverlapInOrder ==
    request.kind = "batch" =>
        /\ \A k \in 1..Len(attempts) : attempts[k].index = k
        /\ \A k \in 1..(Len(attempts) - 1) : attempts[k].outcome # "running"
        /\ an.pc \in SubAnalyses \cup {"respond"} =>
               /\ attempts # << >>
               /\ attempts[Len(attempts)].outcome = "running"
               /\ an.index = Len(attempts)
        /\ IsLargeBatch(request.comments) =>
               /\ \A k \in 1..(Len(attempts) - 1) :
                      attempts[k].outcome = "returned" =>
                          \E j \in 1..Len(update_calls) : update_calls[j].index = k
               /\ \A j \in 1..Len(update_calls) :
                      /\ update_calls[j].index <= Len(attempts)
                      /\ attempts[update_calls[j].index].outcome = "returned"
               /\ \A i, j \in 1..Len(update_calls) :
                      i < j => update_calls[i].index < update_calls[j].index

\* C18's case: the background task is analysing the third comment of a large
\* batch after the first was analysed and persisted and the second failed.
C18_Witness ==
    /\ request.kind = "batch"
    /\ IsLargeBatch(request.comments)
    /\ Len(attempts) = 3
    /\ attempts[1].outcome = "returned"
    /\ attempts[2].outcome = "raised"
    /\ attempts[3].outcome = "running"
    /\ an.pc \in SubAnalyses
    /\ Len(update_calls) = 1
    /\ update_calls[1].index = 1

(***************************************************************************)
(* The claims about the fallback of extract_themes.                        *)
(***************************************************************************)

\* The heuristics that match a lower-cased text, in the fixed order:
\* questions, emotional, personal_story, then appreciation or else criticism.
MatchedHeuristics(text_lower) ==
    (IF Contains(text_lower, "?")
        \/ \E w \in {"why", "how", "what", "when", "where"} : Contains(text_lower, w)
     THEN <<"questions">> ELSE << >>)
    \o (IF \E w \in {"feel", "love", "hate", "sad", "happy", "angry", "excited"} :
              Contains(text_lower, w)
        THEN <<"emotional">> ELSE << >>)
    \o (IF \E w \in {"i ", "me ", "my ", "myself"} : Contains(text_lower, w)
        THEN <<"personal_story">> ELSE << >>)
    \o (IF \E w \in {"great", "awesome", "love", "amazing", "excellent"} :
              Contains(text_lower, w)
        THEN <<"appreciation">>
        ELSE IF \E w \in {"bad", "terrible", "awful", "hate", "worst"} :
                   Contains(text_lower, w)
        THEN <<"criticism">> ELSE << >>)

\* What holds of a result that comes from the fallback: it is the prefix of
\* length at most 3 of the matched heuristics, never holds "appreciation" and
\* "criticism" together, and holds "criticism" only when no positive word is
\* in the text.
FallbackResultRules ==
    (probe.fn = "extract_themes" /\ probe.pc = "done" /\ probe.fallback) =>
        LET matched == MatchedHeuristics(Lower(probe.text))
            n == IF Len(matched) < 3 THEN Len(matched) ELSE 3
        IN /\ probe.ret = SubSeq(matched, 1, n)
           /\ ~({"appreciation", "criticism"} \subseteq Range(probe.ret))
           /\ "criticism" \in Range(probe.ret) =>
                  ~\E w \in {"great", "awesome", "love", "amazing", "excellent"} :
                       Contains(Lower(probe.text), w)

\* C20 as claimed: the fallback is used only when no taxonomy theme scores
\* above 0, and its result is the prefix of length at most 3 of the matched
\* heuristics in the order questions, emotional, personal_story, then
\* appreciation or criticism, these two never together, "criticism" only when
\* no positive word is present.
C20_AsClaimed ==
    /\ (probe.fn = "extract_themes" /\ probe.pc = "done" /\ probe.fallback) =>
           \A t \in DOMAIN ProbeScores : ProbeScores[t] = 0
    /\ FallbackResultRules

(***************************************************************************)
(* The claim about persistence.                                            *)
(***************************************************************************)

\* The comments table before any analysis was stored.
EmptyStore == [id \in 1..NumIds |-> NoAnalysis]

\* The successful update_comment_analysis calls on a comment id, in order.
UpdatesOf(id) == SelectSeq(update_calls, LAMBDA call : call.comment_id = id /\ call.ret)

\* The table the update_comment_analysis calls made so far leave behind: each
\* row holds the analysis_data of the last successful call on its id.
StoreOfCalls ==
    [id \in 1..NumIds |->
        IF UpdatesOf(id) = << >> THEN NoAnalysis
        ELSE UpdatesOf(id)[Len(UpdatesOf(id))].analysis_data]

\* C21: persistence is written only by the background path.  While serving a
\* single comment or a synchronous batch (at most 10 comments) no
\* update_comment_analysis call is made and the store stays as it was.  The
\* store is what the calls of process_batch_analysis made it, each made for a
\* result analyze_comment returned to the background task.  The results of a
\* background batch are not returned: the answer, given before the first
\* analysis, has a message and a status and no results, and it never changes.
C21_PersistOnlyInBackground ==
    /\ (request.kind = "comment"
        \/ (request.kind = "batch" /\ Len(request.comments) <= 10)) =>
           /\ update_calls = << >>
           /\ store = EmptyStore
    /\ store = StoreOfCalls
    /\ update_calls # << >> =>
           /\ bg.state \in {"running", "done"}
           /\ \A k \in 1..Len(update_calls) :
                 /\ attempts[update_calls[k].index].outcome = "returned"
                 /\ update_calls[k].analysis_data =
                        AnalysisData(attempts[update_calls[k].index].result)
    /\ bg.state # "none" =>
           /\ DOMAIN response = {"status_code", "body"}
           /\ DOMAIN response.body = {"message", "status"}
           /\ response.body.status = "processing"
           /\ results = << >>
           /\ handler = "responded"

\* C21's case: a background task is done, the store holds the analysis of a
\* comment, and the caller's answer is still the "processing" message.
C21_Witness ==
    /\ bg.state = "done"
    /\ \E id \in 1..NumIds :
          /\ store[id] # NoAnalysis
          /\ \E k \in 1..Len(attempts) :
                /\ attempts[k].outcome = "returned"
                /\ store[id] = AnalysisData(attempts[k].result)
    /\ \E k \in 1..Len(update_calls) : ~update_calls[k].ret
    /\ response.body.status = "processing"

====
